---- MODULE Spec2Model ----
(***************************************************************************)
(* Model of gift_of_time_edu_rag:                                          *)
(*   src/netlify/functions/background/ingest.ts  (chunkText,               *)
(*   getEmbeddingWithRetry, processEmbeddingsBatch, handler),              *)
(*   src/netlify/functions/api/upload.ts (the row an upload creates) and   *)
(*   the query handler in its two variants, src/unnamed/part_003 and       *)
(*   src/netlify/functions/api/rag-query.ts (vectorSearch, handler,        *)
(*   streamChatCompletion), src/netlify/functions/shared/utils.ts          *)
(*   (checkRateLimit).                                                     *)
(*                                                                         *)
(* The specifications share the variables:                                 *)
(*   ChunkSpec / ChunkFairSpec  chunkText called on a bounded set of texts *)
(*                              and parameters, one loop test or one loop  *)
(*                              body per step;                             *)
(*   RetrySpec                  getEmbeddingWithRetry against an embedding *)
(*                              API that answers or fails, with a clock;   *)
(*   BatchSpec                  processEmbeddingsBatch on a list of        *)
(*                              chunks, one await of a task per step;      *)
(*   Spec                       uploads and concurrent ingest invocations  *)
(*                              over the document table and blob store;    *)
(*   StoreSpec                  calls of processEmbeddingsBatch, one after *)
(*                              the other or at the same time, over the    *)
(*                              embeddings table;                          *)
(*   HandlerSpec                one ingest invocation with every failure   *)
(*                              of its collaborators;                      *)
(*   SearchSpec                 vectorSearch over a bounded store;         *)
(*   QuerySpec                  one query request through the handler;     *)
(*   ExtractSpec                extractText on a bounded set of filenames, *)
(*                              media types and buffers;                   *)
(*   RateSpec                   checkRateLimit called by two clients while *)
(*                              the clock goes on.                         *)
(***************************************************************************)
EXTENDS Integers, Sequences, FiniteSets, TLC

VARIABLES
    ck,          \* one call of chunkText: its arguments, locals and position
    rt,          \* one call of getEmbeddingWithRetry, the API's answers, the clock
    pb,          \* one call of processEmbeddingsBatch: its tasks, batches and delays
    vs,          \* one call of vectorSearch: its arguments and its result
    qr,          \* one query request: its position, calls, events and response
    documents,   \* table rag.documents: row id -> row
    embeddings,  \* table rag.embeddings: the rows, in order of insertion
    apiCalls,    \* per content, the calls of getEmbeddingWithRetry so far (history)
    inv,         \* the ingest invocations in progress: slot -> locals and position
    xt,          \* one call of extractText: its arguments, route and result
    rl           \* rateLimitMap, the clock, and the calls of checkRateLimit (history)

vars == <<ck, rt, pb, vs, qr, documents, embeddings, apiCalls, inv, xt, rl>>

Min(a, b) == IF a <= b THEN a ELSE b
Max(a, b) == IF a >= b THEN a ELSE b

(***************************************************************************)
(* chunkText (ingest.ts 295-319; the first variant, 31-55, is the same     *)
(* text).                                                                  *)
(*                                                                         *)
(* A text is represented by what text.split(/\s+/) makes of it: k          *)
(* non-empty words, preceded by one empty string when the text starts with *)
(* whitespace and followed by one when it ends with whitespace.  The       *)
(* k = 0 texts are "" (split gives [""]) and an all-whitespace text (split *)
(* gives ["", ""]).  Word i of the text is the number i; an empty string   *)
(* is 0.                                                                   *)
(***************************************************************************)

\* Bounds of the chunkText inputs.
MaxWords == 5
LongWords == 600
\* The entries of chunks at which a loop that pushes without end is taken to
\* have reached the limit of the runtime (its heap, or the length of an
\* array).
HeapChunks == 3

DefaultMaxTokens == 700
DefaultOverlapTokens == 120

\* text.split(/\s+/) for the text [k, lead, trail].
SplitWords(t) ==
    IF t.k = 0
    THEN IF t.lead THEN <<0, 0>> ELSE <<0>>
    ELSE (IF t.lead THEN <<0>> ELSE <<>>)
         \o [i \in 1..t.k |-> i]
         \o (IF t.trail THEN <<0>> ELSE <<>>)

\* Math.floor(tokens * (1 / 1.3)) in IEEE doubles: the product falls just
\* below the integer for these multiples of 13, and the floor is one less
\* than the exact quotient (checked for 0..1000).
FloatShort ==
    {39, 65, 78, 117, 130, 143, 156, 221, 234, 247, 260, 273, 286, 299, 312,
     325, 429, 442, 455, 468, 481, 494, 507, 520, 533, 546, 559, 572, 585,
     598, 611, 624, 637, 650, 663, 845, 858, 871, 884, 897, 910, 923, 936,
     949, 962, 975, 988}

TokensToWords(tokens) ==
    IF tokens \in FloatShort THEN (tokens * 10) \div 13 - 1
    ELSE (tokens * 10) \div 13

\* Array.prototype.slice(start, end) on an array of length n: the half-open
\* 0-based index range <<from, to>> it copies (empty when from >= to).
SliceRange(n, start, end) ==
    LET from == IF start < 0 THEN Max(n + start, 0) ELSE Min(start, n)
        to   == IF end < 0 THEN Max(n + end, 0) ELSE Min(end, n)
    IN  <<from, to>>

\* words.slice(start, end).join(' ').trim(): the non-empty words of the slice,
\* in order (only the first and the last word of a text can be empty).
SliceText(words, start, end) ==
    LET r == SliceRange(Len(words), start, end)
    IN  SelectSeq([j \in 1..Max(r[2] - r[1], 0) |-> words[r[1] + j]],
                  LAMBDA w : w # 0)

\* The state of the loop when chunkText is entered.
ChunkEnter(text, maxTokens, overlapTokens) ==
    [text |-> text, maxTokens |-> maxTokens, overlapTokens |-> overlapTokens,
     start |-> 0, chunks |-> <<>>, pc |-> "test"]

\* while (start < words.length)
ChunkTest(c) ==
    IF c.start < Len(SplitWords(c.text))
    THEN [c EXCEPT !.pc = "body"]
    ELSE [c EXCEPT !.pc = "returned"]

\* The position after one pass of the body: break, or back to the test.
AfterBody(start, n) == IF start >= n THEN "returned" ELSE "test"

\* A pass that pushes the chunk pushed last and leaves start where it was
\* is followed by the same pass for ever and the array grows without end,
\* here until it holds HeapChunks entries.  A call whose passes advance
\* pushes as many chunks as its text has windows.
HeapExhausted(c, chunk, start2) ==
    /\ chunk # <<>>
    /\ start2 = c.start
    /\ Len(c.chunks) >= HeapChunks
    /\ c.chunks[Len(c.chunks)] = chunk

\* The two ends of an array that grows without end (chunks.push, ingest.ts
\* 313).  Which one happens depends on the heap limit of the runtime and on
\* the length of the chunk: "aborted" is the process dying when its heap is
\* exhausted, "thrown" is push throwing RangeError: Invalid array length
\* when the array reaches the greatest length the runtime gives an array.
ArrayEnds == {"aborted", "thrown"}

\* Mutant: the next window starts where this one ended.
ChunkBodyNoOverlap(c, o) ==
    LET words  == SplitWords(c.text)
        n      == Len(words)
        maxW   == TokensToWords(c.maxTokens)
        overW  == TokensToWords(c.overlapTokens)
        end    == Min(c.start + maxW, n)
        chunk  == SliceText(words, c.start, end)
        start2 == end
    IN  IF HeapExhausted(c, chunk, start2)
        THEN [c EXCEPT !.pc = o]
        ELSE [c EXCEPT !.chunks = IF chunk # <<>> THEN Append(@, chunk) ELSE @,
                       !.start = start2,
                       !.pc = AfterBody(start2, n)]

\* Mutant: the next window starts one word late.
ChunkBodyGap(c, o) ==
    LET words  == SplitWords(c.text)
        n      == Len(words)
        maxW   == TokensToWords(c.maxTokens)
        overW  == TokensToWords(c.overlapTokens)
        end    == Min(c.start + maxW, n)
        chunk  == SliceText(words, c.start, end)
        start2 == end - overW + 1
    IN  IF HeapExhausted(c, chunk, start2)
        THEN [c EXCEPT !.pc = o]
        ELSE [c EXCEPT !.chunks = IF chunk # <<>> THEN Append(@, chunk) ELSE @,
                       !.start = start2,
                       !.pc = AfterBody(start2, n)]

\* One pass of the loop body (ingest.ts 306-315); o is the end the runtime
\* gives the array when it has grown without end.
ChunkBody(c, o) ==
    LET words  == SplitWords(c.text)
        n      == Len(words)
        maxW   == TokensToWords(c.maxTokens)
        overW  == TokensToWords(c.overlapTokens)
        end    == Min(c.start + maxW, n)
        chunk  == SliceText(words, c.start, end)
        start2 == end - overW
    IN  IF HeapExhausted(c, chunk, start2)
        THEN [c EXCEPT !.pc = o]
        ELSE [c EXCEPT !.chunks = IF chunk # <<>> THEN Append(@, chunk) ELSE @,
                       !.start = start2,
                       !.pc = AfterBody(start2, n)]

\* The short texts, and one text longer than the default window.
ChunkTexts == [k : 0..MaxWords, lead : BOOLEAN, trail : BOOLEAN]
LongText == [k |-> LongWords, lead |-> FALSE, trail |-> FALSE]

\* <<maxTokens, overlapTokens>>: the defaults, and budgets of a few words.
ChunkParams ==
    {<<DefaultMaxTokens, DefaultOverlapTokens>>, <<4, 0>>, <<4, 1>>, <<4, 2>>, <<7, 3>>}

\* The calls of ChunkSpec: the short texts with every budget, the long text
\* with the default budgets.
ChunkCalls ==
    {ChunkEnter(t, p[1], p[2]) : t \in ChunkTexts, p \in ChunkParams}
    \cup {ChunkEnter(LongText, DefaultMaxTokens, DefaultOverlapTokens)}

ChunkIdle == ChunkEnter([k |-> 0, lead |-> FALSE, trail |-> FALSE], 0, 0)

(***************************************************************************)
(* getEmbeddingWithRetry (ingest.ts 337-361).                              *)
(***************************************************************************)

DefaultMaxRetries == 3
\* Bounds: the maxRetries arguments tried, and the clock (milliseconds / 1000).
MaxRetriesArg == 4
MaxTime == 9

EmbValues == {"v1", "v2"}
ApiErrors == {"e1", "e2"}

\* Mutant: the exponent is the attempt number (2s, 4s, ...).
BackoffDoubled(attempt) == 2 ^ attempt

\* Exponential backoff: Math.pow(2, attempt - 1) * 1000, here in seconds.
BackoffSeconds(attempt) == 2 ^ (attempt - 1)

\* Mutant: the last attempt is taken to be the one before maxRetries.
LastAttemptEarly(attempt, maxRetries) == attempt = maxRetries - 1

\* catch (error): rethrow on the last attempt, back off otherwise.
LastAttempt(attempt, maxRetries) == attempt = maxRetries

RetryEnter(maxRetries) ==
    [maxRetries |-> maxRetries, attempt |-> 1,
     pc |-> IF 1 <= maxRetries THEN "call" ELSE "thrown",
     calls |-> <<>>, sleeps |-> <<>>, wakeAt |-> 0, now |-> 0, issued |-> 0,
     result |-> "none", error |-> IF 1 <= maxRetries THEN "none" ELSE "max_retries"]

RetryIdle == [RetryEnter(0) EXCEPT !.pc = "idle", !.error = "none"]

\* openai.embeddings.create resolves with an embedding: return it.
RetryCallOk(r, v) ==
    [r EXCEPT !.calls = Append(@, [issued |-> r.issued, at |-> r.now,
                                   ok |-> TRUE, val |-> v]),
              !.result = v, !.pc = "returned"]

\* The call rejects (or the response holds no data[0]): the catch block.
RetryCallFail(r, e) ==
    LET r2 == [r EXCEPT !.calls = Append(@, [issued |-> r.issued, at |-> r.now,
                                             ok |-> FALSE, val |-> e])]
    IN  IF LastAttempt(r.attempt, r.maxRetries)
        THEN [r2 EXCEPT !.pc = "thrown", !.error = e]
        ELSE [r2 EXCEPT !.pc = "sleep",
                        !.sleeps = Append(@, BackoffSeconds(r.attempt)),
                        !.wakeAt = r.now + BackoffSeconds(r.attempt)]

\* The timer of sleep(backoffMs) fires: the next pass of the for loop.
RetryWake(r) ==
    LET a == r.attempt + 1
    IN  IF a <= r.maxRetries
        THEN [r EXCEPT !.attempt = a, !.pc = "call", !.issued = r.now]
        ELSE [r EXCEPT !.attempt = a, !.pc = "thrown", !.error = "max_retries"]


(***************************************************************************)
(* processEmbeddingsBatch as a function (ingest.ts 364-448): the batches,  *)
(* the tasks of a batch and the delay between batches.  The answers of the *)
(* database and of getEmbeddingWithRetry are inputs of the steps.  A task  *)
(* is at "wait" (not started), "lookup" (cache SELECT queued), "api"       *)
(* (getEmbeddingWithRetry pending), "upsert" (INSERT queued) or "failed":  *)
(* the INSERT is rejected as written, so that no task ends in success.     *)
(* Time is in seconds and passes during the delay.                         *)
(***************************************************************************)

\* const batchSize = 10 (ingest.ts 369).
batchSize == 10

\* Bounds: chunks beyond one full batch, and the clock.
MaxExtraChunks == 1
MaxBatchTime == 2

\* The lengths of the chunk lists tried.
BatchLengths == {1, 2} \cup ((batchSize + 1)..(batchSize + MaxExtraChunks))

\* Mutant: a batch takes one chunk more.
BatchEndWide(i, n) == Min(i + batchSize + 1, n)

\* chunks.slice(i, i + batchSize): the end of the batch starting at i.
BatchEnd(i, n) == Min(i + batchSize, n)

\* batch.map(async ...): the tasks of the batch starting at i are started.
StartBatch(tasks, i) ==
    [k \in 1..Len(tasks) |->
        IF i < k /\ k <= BatchEnd(i, Len(tasks)) THEN "lookup" ELSE tasks[k]]

BatchEnter(n) ==
    [pc |-> IF n > 0 THEN "batch" ELSE "returned", n |-> n, i |-> 0,
     tasks |-> StartBatch([k \in 1..n |-> "wait"], 0),
     now |-> 0, wakeAt |-> 0, sleeps |-> <<>>,
     starts |-> IF n = 0 THEN <<>> ELSE <<0>>, settles |-> <<>>]

BatchIdle == [BatchEnter(0) EXCEPT !.pc = "idle"]

\* The tasks of the batch in progress.
InBatch(p) == {k \in 1..p.n : p.i < k /\ k <= BatchEnd(p.i, p.n)}

InFlight(p) == {k \in 1..p.n : p.tasks[k] \in {"lookup", "api", "upsert"}}

\* Mutant: the error of a task is not caught and rejects the call.
TaskRejects(p, k) == [p EXCEPT !.tasks[k] = "failed", !.pc = "thrown"]

\* catch (error) of a task (ingest.ts 424-427): { success: false }.
TaskFails(p, k) == [p EXCEPT !.tasks[k] = "failed"]

\* The cache SELECT of task k is answered (ingest.ts 382-395): with no row,
\* and the embedding is asked for; with a row, whose embedding is a string,
\* so that embedding.join (ingest.ts 415) throws before the INSERT is issued;
\* or with an error.
TaskLookup(p, k, answer) ==
    CASE answer = "miss" -> [p EXCEPT !.tasks[k] = "api"]
      [] OTHER           -> TaskFails(p, k)

\* getEmbeddingWithRetry returns or throws (ingest.ts 394).
TaskEmbed(p, k, ok) ==
    IF ok THEN [p EXCEPT !.tasks[k] = "upsert"] ELSE TaskFails(p, k)

\* The INSERT ... ON CONFLICT of task k is answered (ingest.ts 399-423): it
\* names the column updated_at, which rag.embeddings does not have, and is
\* rejected.
TaskUpsert(p, k) == TaskFails(p, k)

\* Mutant: the delay is taken after every batch.
DelayAlways(i, n) == TRUE

\* if (i + batchSize < chunks.length) await sleep(1000) (ingest.ts 444-446).
DelayAfter(i, n) == i + batchSize < n

\* sleep(1000), in seconds.
InterBatchDelay == 1

\* Promise.allSettled has resolved (ingest.ts 430-446): the failures are
\* logged, then the delay, or the next pass of the for loop.
BatchAfter(p) ==
    LET q == [p EXCEPT !.settles = Append(@, p.now)]
    IN  IF DelayAfter(p.i, p.n)
        THEN [q EXCEPT !.pc = "sleep", !.sleeps = Append(@, InterBatchDelay),
                       !.wakeAt = p.now + InterBatchDelay]
        ELSE [q EXCEPT !.pc = "next"]

\* i += batchSize and the loop test (ingest.ts 371): the next batch starts, or
\* the function returns.
BatchLoop(p) ==
    LET i == p.i + batchSize
    IN  IF i < p.n
        THEN [p EXCEPT !.i = i, !.pc = "batch", !.tasks = StartBatch(p.tasks, i),
                       !.starts = Append(@, p.now)]
        ELSE [p EXCEPT !.i = i, !.pc = "returned"]

(***************************************************************************)
(* vectorSearch (rag-query.ts 36-72; the same function in the handler with *)
(* validation, lines 77-113 there).  The statement is one SELECT over      *)
(* rag.embeddings joined with rag.documents, ordered by cosine distance    *)
(* and limited to topK; rows at equal distance come in any order.  The     *)
(* column embedding carries an ivfflat index (db-migrate.ts 81-85), and    *)
(* when the planner answers the statement from the index, only the rows of *)
(* the lists probed are looked at.  A query vector is "q1" or "q2";        *)
(* distances are whole numbers here.                                       *)
(***************************************************************************)

QueryVectors == {"q1", "q2"}

\* e.embedding <=> $1: the cosine distance of a stored embedding to the query.
Distance(qvec, embedding) ==
    CASE embedding = "v1"     -> IF qvec = "q1" THEN 0 ELSE 2
      [] embedding = "v2"     -> IF qvec = "q1" THEN 1 ELSE 0
      [] embedding = "fake_a" -> 1
      [] OTHER                -> IF qvec = "q1" THEN 2 ELSE 1

\* if (docId): an absent (or empty) doc_id adds no WHERE clause.
NoFilter == 0

\* Mutant: the WHERE clause is never added.
InScopeUnfiltered(docId, row) == TRUE

\* WHERE d.metadata->>'doc_id' = $2, when a doc_id is given.
InScope(docId, row) == docId = NoFilter \/ row.document_id = docId

\* FROM rag.embeddings e JOIN rag.documents d ON e.document_id = d.id [WHERE ...]:
\* the positions of the rows selected.
Candidates(rows, docs, docId) ==
    {x \in 1..Len(rows) :
        /\ rows[x].document_id \in DOMAIN docs
        /\ docs[rows[x].document_id].present
        /\ InScope(docId, rows[x])}

\* ORDER BY e.embedding <=> $1 (ascending distance).
OrderedBefore(d1, d2) == d1 <= d2

\* The orders in which the statement can deliver the selected rows.
Orderings(rows, qvec, cand) ==
    LET n == Cardinality(cand)
    IN  {s \in [1..n -> cand] :
            /\ \A a, b \in 1..n : a # b => s[a] # s[b]
            /\ \A a \in 1..(n - 1) :
                  OrderedBefore(Distance(qvec, rows[s[a]].embedding),
                                Distance(qvec, rows[s[a + 1]].embedding))}

\* result.rows.map(...): id, content, chunk_index, document_title and
\* similarity = 1 - distance of a row (the title names the parent document).
ChunkResult(rows, x, qvec) ==
    [id |-> x, content |-> rows[x].content, chunk_index |-> rows[x].chunk_index,
     document_title |-> rows[x].document_id,
     similarity |-> 1 - Distance(qvec, rows[x].embedding)]

\* The rows the statement looks at: all the rows selected (a sequential
\* scan), or those of them in the lists of the ivfflat index that are
\* probed (one list unless ivfflat.probes is set, which no statement of the
\* code does).  Rows of equal embedding are in the same list.
Scans(rows, cand) ==
    {S \in SUBSET cand :
        \A x \in S, y \in cand : rows[x].embedding = rows[y].embedding => y \in S}

\* The results vectorSearch can return: LIMIT topK of an ordering of the
\* rows looked at.
VectorSearch(rows, docs, qvec, docId, topK) ==
    UNION {{[x \in 1..Min(topK, Cardinality(S)) |-> ChunkResult(rows, s[x], qvec)] :
               s \in Orderings(rows, qvec, S)} :
           S \in Scans(rows, Candidates(rows, docs, docId))}

SearchEnter(qvec, docId, topK) ==
    [pc |-> "query", qvec |-> qvec, docId |-> docId, topK |-> topK, result |-> <<>>]

SearchIdle == [SearchEnter("q1", NoFilter, 0) EXCEPT !.pc = "idle"]

(***************************************************************************)
(* The query handler, in its two variants: "validated" (the handler with   *)
(* rate limit, zod validation, retrieval log and metadata event, lines     *)
(* 131-355 of that file) and "plain" (api/rag-query.ts 90-284).  One       *)
(* request is followed from its arrival to its response.  The answers of   *)
(* the database, the embedding API and the completion API are inputs of    *)
(* the steps; the rate limiter is checkRateLimit on rl.  calls is the history of the external      *)
(* calls issued.  A chunk is shown in events and responses by its id.      *)
(***************************************************************************)

\* top_k absent from the body.
NoTopK == -1

\* top_k = 5 when absent (zod .default(5); const { top_k = 5 } = input).
DefaultTopK == 5

TopKOrDefault(k) == IF k = NoTopK THEN DefaultTopK ELSE k

NoResponse ==
    [status |-> 0, code |-> "none", chunks |-> <<>>, answer |-> "none", events |-> <<>>]

NoQueryRequest ==
    [method |-> "POST", ip |-> "a", body |-> "json", prompt |-> "ok",
     doc_id |-> NoFilter, top_k |-> NoTopK, sse |-> FALSE]

QueryIdle ==
    [pc |-> "idle", variant |-> "validated", req |-> NoQueryRequest, top_k |-> 0,
     calls |-> <<>>, qvec |-> "q1", chunks |-> <<>>, context |-> <<>>, logs |-> <<>>,
     sse |-> <<>>, deltas |-> <<>>, thrown |-> FALSE, allowed |-> TRUE,
     resp |-> NoResponse]

\* The response is fixed: return it (the handler is done).
Respond(q, status, code) ==
    [q EXCEPT !.pc = "done", !.resp.status = status, !.resp.code = code]

\* QueryInputSchema (zod): prompt of 1..2000 characters (a blank prompt has
\* a length), top_k an integer of 1..20 or absent.
SchemaOk(req) ==
    /\ req.prompt \in {"ok", "blank"}
    /\ req.top_k = NoTopK \/ (1 <= req.top_k /\ req.top_k <= 20)

\* if (!prompt?.trim()) of the plain variant: top_k is not looked at.
PlainOk(req) == req.prompt \in {"ok", "long"}

\* The validated variant calls checkRateLimit(getClientIP(event)) for every
\* POST request (lines 137-139 of that file); the plain variant never does.
CallsLimiter(variant, req) == variant = "validated" /\ req.method = "POST"

\* The handler up to its first await: method check, rate limit, validation.
\* req.ip is the key getClientIP gives for the request; allowed is the answer
\* of checkRateLimit when it is called.  The 405 response of the plain
\* variant carries no code.
QueryEnter(variant, req, allowed) ==
    LET q == [QueryIdle EXCEPT !.variant = variant, !.req = req,
                               !.top_k = TopKOrDefault(req.top_k),
                               !.allowed = allowed]
    IN  IF req.method # "POST"
        THEN Respond(q, 405, IF variant = "validated" THEN "METHOD_NOT_ALLOWED"
                             ELSE "none")
        ELSE IF variant = "validated"
        THEN IF ~allowed THEN Respond(q, 429, "RATE_LIMITED")
             ELSE IF req.body = "none" THEN Respond(q, 400, "MISSING_REQUIRED_FIELD")
             ELSE IF req.body = "invalid" \/ ~SchemaOk(req)
                  THEN Respond(q, 400, "VALIDATION_ERROR")
             ELSE [q EXCEPT !.pc = "connect"]
        ELSE IF req.body = "invalid" THEN Respond(q, 500, "none")
             ELSE IF req.body = "none" \/ ~PlainOk(req) THEN Respond(q, 400, "none")
             ELSE [q EXCEPT !.pc = "connect"]

Called(q, name, ok) == [q EXCEPT !.calls = Append(@, [name |-> name, ok |-> ok])]

\* An error thrown inside the inner try: the finally block, then the catch.
QueryThrow(q) == [q EXCEPT !.pc = "finally", !.thrown = TRUE]

\* A piece of the context string: the preamble, a citation marker "[n] ",
\* the content of a chunk (followed by a blank line), the closing instruction.
Piece(kind, n, text) == [kind |-> kind, n |-> n, text |-> text]

\* Mutant: the citation marker is the id of the chunk.
PackContextById(chunks) ==
    <<Piece("preamble", 0, "")>>
    \o [y \in 1..(2 * Len(chunks)) |->
          IF y % 2 = 1 THEN Piece("citation", chunks[(y + 1) \div 2].id, "")
          ELSE Piece("content", 0, chunks[y \div 2].content)]
    \o <<Piece("instruction", 0, "")>>

\* packContextWithCitations: the preamble, then for the chunk at index x of
\* the array "[x + 1] " and its content, then the closing instruction.
PackContext(chunks) ==
    <<Piece("preamble", 0, "")>>
    \o [y \in 1..(2 * Len(chunks)) |->
          IF y % 2 = 1 THEN Piece("citation", (y + 1) \div 2, "")
          ELSE Piece("content", 0, chunks[y \div 2].content)]
    \o <<Piece("instruction", 0, "")>>

Ids(chunks) == [x \in 1..Len(chunks) |-> chunks[x].id]

\* Mutant: an empty search result is not recognised.
NoResultsNever(chunks) == FALSE

\* if (chunks.length === 0).
NoResults(chunks) == Len(chunks) = 0

\* The 200 response of a search without results.
RespondEmpty(q) ==
    [q EXCEPT !.pc = "finally", !.resp.status = 200, !.resp.chunks = <<>>,
              !.resp.answer = "no_relevant_information"]

\* vectorSearch has returned r: no results, or pack the context.
AfterSearch(q, r) ==
    LET q2 == [q EXCEPT !.chunks = r]
    IN  IF NoResults(r)
        THEN IF q.variant = "validated" THEN [q2 EXCEPT !.pc = "log"]
             ELSE RespondEmpty(q2)
        ELSE [q2 EXCEPT !.context = PackContext(r),
                        !.pc = IF q.variant = "validated" THEN "log" ELSE "generate"]

\* Mutant: the error of logRetrieval is thrown on.
AfterLogThrows(q, ok) ==
    IF ~ok THEN QueryThrow(q)
    ELSE LET q2 == [q EXCEPT !.logs = Append(@, [chunk_ids |-> Ids(q.chunks),
                                                 doc_id |-> q.req.doc_id,
                                                 top_k |-> q.top_k])]
         IN  IF NoResults(q.chunks) THEN RespondEmpty(q2) ELSE [q2 EXCEPT !.pc = "generate"]

\* logRetrieval has settled (its error is caught and logged).
AfterLog(q, ok) ==
    LET q2 == IF ok THEN [q EXCEPT !.logs = Append(@, [chunk_ids |-> Ids(q.chunks),
                                                      doc_id |-> q.req.doc_id,
                                                      top_k |-> q.top_k])]
              ELSE q
    IN  IF NoResults(q.chunks) THEN RespondEmpty(q2) ELSE [q2 EXCEPT !.pc = "generate"]

Event(type, content, chunks) == [type |-> type, content |-> content, chunks |-> chunks]

\* The events written before the first token: metadata (validated variant
\* only) and chunks.
StreamHead(q) ==
    (IF q.variant = "validated" THEN <<Event("metadata", "", <<>>)>> ELSE <<>>)
    \o <<Event("chunks", "", Ids(q.chunks))>>

\* if (content): a delta without content adds no event.
StreamDelta(q, d) ==
    [q EXCEPT !.deltas = Append(@, d),
              !.sse = IF d # "" THEN Append(@, Event("token", d, <<>>)) ELSE @]

\* The SSE body is returned as the 200 response.
RespondStream(q, events) ==
    [q EXCEPT !.pc = "finally", !.resp.status = 200, !.resp.events = events]

\* catch of streamChatCompletion: the body returned is the error event alone.
StreamCatch(q) == RespondStream(q, <<Event("error", "", <<>>)>>)

\* Mutant: the end event is left out.
StreamFinishOpen(q) == RespondStream(q, q.sse)

\* The stream is exhausted: the end event, and the body is returned.
StreamFinish(q) == RespondStream(q, Append(q.sse, Event("end", "", <<>>)))

\* completion.choices[0]?.message?.content || 'No response generated.'
AnswerOf(content) == IF content = "" THEN "no_response_generated" ELSE content

\* The JSON response with the answer.
RespondAnswer(q, content) ==
    [q EXCEPT !.pc = "finally", !.resp.status = 200, !.resp.chunks = Ids(q.chunks),
              !.resp.answer = AnswerOf(content)]

(***************************************************************************)
(* extractText (ingest.ts 451-479).  A filename is the sequence of its     *)
(* segments between dots; a media type is known by the substrings the code *)
(* looks for in it; the buffer is a name for its bytes, and the UTF-8      *)
(* decoding of a buffer is named after it.  The decoding of "huge_bytes",  *)
(* a buffer of more bytes than the longest string of the runtime has       *)
(* characters, throws.  The PDF and DOCX libraries return a text or throw. *)
(***************************************************************************)
Filenames ==
    {<<"note", "txt">>, <<"file", "pdf">>, <<"REPORT", "PDF">>, <<"a", "docx">>,
     <<"data", "bin">>, <<"x", "pdf", "txt">>, <<"pdf">>}

Mimetypes ==
    {"application/pdf", "application/msword", "text/plain", "text/markdown",
     "application/octet-stream"}

Buffers == {"hello_bytes", "pdf_bytes", "docx_bytes", "huge_bytes"}

\* String.prototype.toLowerCase on the segments used.
ToLowerCase(str) == IF str = "PDF" THEN "pdf" ELSE str

\* filename.split('.').pop()?.toLowerCase()
ExtOf(filename) == ToLowerCase(filename[Len(filename)])

\* mimetype.includes(part)
MimeIncludes(mimetype, part) ==
    CASE part = "pdf"  -> mimetype = "application/pdf"
      [] part = "word" -> mimetype = "application/msword"
      [] part = "text" -> mimetype \in {"text/plain", "text/markdown"}
      [] OTHER         -> FALSE

\* buffer.toString('utf-8'): the string decoded, or the error thrown
\* ('Cannot create a string longer than 0x1fffffe8 characters') for a buffer
\* that decodes to more than the runtime allows.
Utf8(buffer) ==
    IF buffer = "huge_bytes" THEN [thrown |-> TRUE, text |-> <<>>]
    ELSE [thrown |-> FALSE, text |-> <<"utf8", buffer>>]

\* The branch extractText takes: the tests of ingest.ts 455, 463, 468 in
\* their order, and the fallback of 473.
Route(filename, mimetype) ==
    LET ext == ExtOf(filename)
    IN  IF MimeIncludes(mimetype, "pdf") \/ ext = "pdf" THEN "pdf"
        ELSE IF MimeIncludes(mimetype, "word") \/ ext = "docx" THEN "docx"
        ELSE IF MimeIncludes(mimetype, "text") \/ ext = "txt" THEN "utf8"
        ELSE "utf8"

ExtractIdle ==
    [pc |-> "idle", buffer |-> "hello_bytes", filename |-> <<"note", "txt">>,
     mimetype |-> "text/plain", route |-> "none", result |-> <<>>]

\* extractText is called: the branch is taken; the plain decoding returns at
\* once, or throws into the catch block, which rethrows ('Failed to extract
\* text from ...'); a library call is awaited.
ExtractEnter(buffer, filename, mimetype) ==
    LET r == Route(filename, mimetype)
        x == [ExtractIdle EXCEPT !.buffer = buffer, !.filename = filename,
                                 !.mimetype = mimetype, !.route = r]
    IN  IF r = "utf8"
        THEN IF Utf8(buffer).thrown THEN [x EXCEPT !.pc = "thrown"]
             ELSE [x EXCEPT !.pc = "returned", !.result = Utf8(buffer).text]
        ELSE [x EXCEPT !.pc = "library"]

\* The library call settles: data.text / result.value is returned, or the
\* error is caught and rethrown as 'Failed to extract text from ...'.
ExtractSettle(x, ok) ==
    IF ok THEN [x EXCEPT !.pc = "returned", !.result = <<x.route, x.buffer>>]
    ELSE [x EXCEPT !.pc = "thrown"]

(***************************************************************************)
(* checkRateLimit (utils.ts 91-140).  rateLimitMap is a function from the  *)
(* client keys to their entries (present or not); Date.now() is the clock  *)
(* rl.now, in milliseconds, which never goes back.                         *)
(***************************************************************************)
RATE_LIMIT_WINDOW == 60000
RATE_LIMIT_MAX_REQUESTS == 60

Clients == {"a", "b"}

NoEntry == [present |-> FALSE, count |-> 0, resetTime |-> 0]
NewEntry(now) == [present |-> TRUE, count |-> 1, resetTime |-> now + RATE_LIMIT_WINDOW]

\* Mutant: a live entry of any key is dropped when its count is full.
CleanUpFull(map, now) ==
    [k \in Clients |->
        IF map[k].present
           /\ (map[k].resetTime < now \/ map[k].count >= RATE_LIMIT_MAX_REQUESTS)
        THEN NoEntry ELSE map[k]]

\* for (const [k, v] of rateLimitMap.entries()) if (v.resetTime < now) delete
CleanUp(map, now) ==
    [k \in Clients |->
        IF map[k].present /\ map[k].resetTime < now THEN NoEntry ELSE map[k]]

\* checkRateLimit(ip) at time now: the map after the call and the decision.
checkRateLimit(map, now, key) ==
    LET cleaned == CleanUp(map, now)
        current == cleaned[key]
    IN  IF ~current.present
        THEN [map |-> [cleaned EXCEPT ![key] = NewEntry(now)], allowed |-> TRUE]
        ELSE IF current.resetTime < now
        THEN [map |-> [cleaned EXCEPT ![key] = NewEntry(now)], allowed |-> TRUE]
        ELSE IF current.count >= RATE_LIMIT_MAX_REQUESTS
        THEN [map |-> cleaned, allowed |-> FALSE]
        ELSE [map |-> [cleaned EXCEPT ![key].count = @ + 1], allowed |-> TRUE]

\* hist[k]: the calls of key k answered allowed, as <<time, number>> pairs in
\* order of time.  last: the latest call and its answer.
RateIdle ==
    [now |-> 0, map |-> [k \in Clients |-> NoEntry],
     hist |-> [k \in Clients |-> <<>>],
     last |-> [key |-> "a", allowed |-> TRUE],
     ticks |-> 0]

\* One more allowed call at time now in a history.
Allowed(h, now) ==
    IF h # <<>> /\ h[Len(h)][1] = now
    THEN [h EXCEPT ![Len(h)] = <<now, @[2] + 1>>]
    ELSE Append(h, <<now, 1>>)

\* The limiter after checkRateLimit(k) was called at the time r.now.
RateApply(r, k) ==
    LET c == checkRateLimit(r.map, r.now, k)
    IN  [r EXCEPT !.map = c.map,
                  !.hist[k] = IF c.allowed THEN Allowed(@, r.now) ELSE @,
                  !.last = [key |-> k, allowed |-> c.allowed]]

\* The limiter after client k has called checkRateLimit at time 0 as often
\* as one window allows: the first call made the entry, the others counted.
RateUsedUp(k) ==
    [RateIdle EXCEPT
        !.map[k] = [NewEntry(0) EXCEPT !.count = RATE_LIMIT_MAX_REQUESTS],
        !.hist[k] = <<<<0, RATE_LIMIT_MAX_REQUESTS>>>>,
        !.last = [key |-> k, allowed |-> TRUE]]

(***************************************************************************)
(* The tables and the ingest handler, in its two variants: "direct"        *)
(* (ingest.ts 101-261), which wants a doc_id and a tenant_id and resolves  *)
(* by doc_id, and "cached" (ingest.ts 481-660), which takes a doc_id, a    *)
(* blob_key or a blob_url.  The resolution statements of the cached        *)
(* variant name their metadata key in double quotes, which makes it a      *)
(* column name: no such column exists and the statement is rejected for    *)
(* every request, so that variant goes from its resolution to its catch    *)
(* block.  The direct variant calls chunkText(cleanedText) with the        *)
(* default budgets, a call that does not return: either the process dies   *)
(* or the call throws, and the statements after it are never executed; the *)
(* model has no step for them.                                             *)
(*                                                                         *)
(* A row of rag.documents is created by the upload handler (upload.ts      *)
(* 107-153) with metadata.status UPLOADED, a fresh metadata.doc_id and the *)
(* blob path derived from it: the row with id d has doc_id d and blob path *)
(* d.  A file is named by its cleaned text: "empty" cleans to the empty    *)
(* string; "A" is a text of two words, "AB" a text longer than the default *)
(* window.  The media type is not tracked: extraction can fail for any     *)
(* file, as it can for a PDF or DOCX.  A database statement is one atomic  *)
(* step; a statement, a connection or a blob read can fail.  Timestamps    *)
(* and token counts (functions of the content) are left out of the rows.   *)
(***************************************************************************)

\* Bound of Spec: the documents uploaded.
MaxUploads == 1
DocIds == {1, 2}
\* Concurrent invocations of the function.
Slots == {1, 2}

Files == {"empty", "A", "AB"}
Contents == {"a", "b"}

\* The words of the cleaned text of a file.
WordsOfFile(file) ==
    CASE file = "empty" -> 0
      [] file = "A"     -> 2
      [] OTHER          -> LongWords

NoRow == [present |-> FALSE, status |-> "NONE", chunks_count |-> -1, file |-> "empty"]
NoDocuments == [d \in DocIds |-> NoRow]

\* JSON.stringify({status: 'UPLOADED', ...}) of upload.ts: the row inserted.
UploadedRow(file) ==
    [present |-> TRUE, status |-> "UPLOADED", chunks_count |-> -1, file |-> file]

\* The metadata keys the handler writes; the other keys never change.
Metadata(row) == [status |-> row.status, chunks_count |-> row.chunks_count]

\* event.body: the reference given, or a body that is not JSON.  key 0 names
\* no document; a blob_url with key -1 has no path to derive a key from.
\* tenant: the body carries a tenant_id, which only the first variant looks at.
RequestsOn(keys) ==
    [variant : {"cached"}, kind : {"doc_id", "blob_key"}, key : keys \cup {0},
     tenant : {TRUE}]
    \cup [variant : {"cached"}, kind : {"blob_url"}, key : keys \cup {0, -1},
          tenant : {TRUE}]
    \cup [variant : {"cached"}, kind : {"none", "malformed"}, key : {0}, tenant : {FALSE}]

\* The bodies sent to the first variant: a doc_id or none, with or without a
\* tenant_id.
DirectRequestsOn(keys) ==
    [variant : {"direct"}, kind : {"doc_id", "none"}, key : keys \cup {0},
     tenant : BOOLEAN]

NoRequest == [variant |-> "cached", kind |-> "none", key |-> 0, tenant |-> FALSE]

IdleInv ==
    [pc |-> "idle", req |-> NoRequest, doc |-> 0,
     meta |-> Metadata(NoRow), err |-> "none", setProc |-> FALSE,
     refs |-> "unasked",
     errIssued |-> FALSE, conn2 |-> FALSE, markFailed |-> FALSE, loop |-> ChunkIdle,
     chunks |-> <<>>, tasks |-> <<>>, batch |-> 0, status |-> 0, open |-> {}]
NoInvocations == [i \in Slots |-> IdleInv]

\* if (!doc_id && !blob_key && !blob_url) (ingest.ts 486); the first variant
\* has if (!doc_id || !tenant_id) (ingest.ts 106).
HasIdentifier(req) ==
    IF req.variant = "direct" THEN req.kind = "doc_id" /\ req.tenant
    ELSE req.kind \in {"doc_id", "blob_key", "blob_url"}

\* The resolution statements of the cached variant (ingest.ts 505, 510, 524)
\* compare metadata->>"doc_id" and metadata->>"blob_path": a name in double
\* quotes is a column, rag.documents has no such column, and the statement
\* is rejected whatever its parameter.  The direct variant (ingest.ts 123)
\* writes metadata->>'doc_id'.
Rejected(req) == req.variant = "cached"

\* The documents a reference names: the row with id d has doc_id d and
\* blob path d (upload.ts 107-153).
Named(docs, req) == {d \in DocIds : docs[d].present /\ d = req.key}

\* The rows a resolution query selects (ingest.ts 122-125; 503-527 select
\* none).
Resolved(docs, req) == IF Rejected(req) THEN {} ELSE Named(docs, req)

\* UPDATE ... SET metadata = {...metadata, status: 'PROCESSING'} WHERE id = dbDocId
\* (ingest.ts 136-139): the metadata read at resolution, with the new status.
ProcessingRow(row, meta) ==
    [row EXCEPT !.status = "PROCESSING", !.chunks_count = meta.chunks_count]

\* if (input.doc_id) in the catch block (ingest.ts 633-634).
CatchHasDocId(req) == req.kind = "doc_id"

\* UPDATE ... SET metadata = jsonb_set(metadata, '{status}', '"ERROR"')
\* WHERE metadata->>'doc_id' = input.doc_id (ingest.ts 635-640).
ErrorRows(docs, req) ==
    [d \in DocIds |->
        IF docs[d].present /\ d = req.key
        THEN [docs[d] EXCEPT !.status = "ERROR"] ELSE docs[d]]

\* throw: the error is recorded, and the finally block (client.end) runs when
\* the primary connection is open.
Throw(v, err, connected) ==
    [v EXCEPT !.err = err, !.pc = IF connected THEN "finally" ELSE "catch"]

Init ==
    /\ ck = ChunkIdle
    /\ rt = RetryIdle
    /\ pb = BatchIdle
    /\ vs = SearchIdle
    /\ qr = QueryIdle
    /\ documents = NoDocuments
    /\ embeddings = <<>>
    /\ apiCalls = [c \in Contents |-> 0]
    /\ xt = ExtractIdle
    /\ rl = RateIdle
    /\ inv = NoInvocations

\* upload.ts handler: the blob is stored and the row inserted.
Upload(d, file) ==
    /\ ~documents[d].present
    /\ \A e \in DocIds : e < d => documents[e].present
    /\ documents' = [documents EXCEPT ![d] = UploadedRow(file)]
    /\ UNCHANGED <<xt, rl, vs, qr, pb, ck, rt, embeddings, apiCalls, inv>>

\* handler entry (ingest.ts 482-498): parse the body, check the identifier,
\* start connecting.  A request is served by the lowest free slot.
Invoke(i, req) ==
    /\ inv[i].pc = "idle"
    /\ \A j \in Slots : j < i => inv[j].pc # "idle"
    /\ inv' = [inv EXCEPT ![i] =
          IF req.kind = "malformed"
          THEN Throw([IdleInv EXCEPT !.req = req], "bad_json", FALSE)
          ELSE IF ~HasIdentifier(req)
          THEN Throw([IdleInv EXCEPT !.req = req], "missing_identifier", FALSE)
          ELSE [IdleInv EXCEPT !.req = req, !.pc = "connect"]]
    /\ UNCHANGED <<xt, rl, vs, qr, pb, ck, rt, documents, embeddings, apiCalls>>

\* await client.connect() (ingest.ts 498) opens the primary connection (open
\* holds the connections that are connected and not ended), then the resolution query is issued
\* (a blob_url without a path throws before any query).
Connect(i, ok) ==
    /\ inv[i].pc = "connect"
    /\ inv' = [inv EXCEPT ![i] =
          IF ~ok THEN Throw(@, "connect_failed", FALSE)
          ELSE IF @.req.kind = "blob_url" /\ @.req.key = -1
               THEN Throw([@ EXCEPT !.open = {"primary"}], "underivable_key", TRUE)
          ELSE [@ EXCEPT !.open = {"primary"}, !.pc = "resolve"]]
    /\ UNCHANGED <<xt, rl, vs, qr, pb, ck, rt, documents, embeddings, apiCalls>>

\* The SELECT of the document (ingest.ts 122-133, 503-535): it fails with
\* the error of the connection, or it reaches the database, which rejects it
\* as written or answers it with no row or with the row.  refs records
\* whether the reference named a document when the database was asked.
Resolve(i, ok) ==
    /\ inv[i].pc = "resolve"
    /\ LET found == Resolved(documents, inv[i].req)
           refs  == IF Named(documents, inv[i].req) = {} THEN "none" ELSE "some"
       IN  inv' = [inv EXCEPT ![i] =
              IF ~ok THEN Throw(@, "query_failed", TRUE)
              ELSE IF Rejected(@.req)
                   THEN Throw([@ EXCEPT !.refs = refs], "bad_statement", TRUE)
              ELSE IF found = {}
                   THEN Throw([@ EXCEPT !.refs = refs], "not_found", TRUE)
              ELSE LET d == CHOOSE x \in found : TRUE
                   IN  [@ EXCEPT !.refs = refs, !.doc = d,
                                 !.meta = Metadata(documents[d]),
                                 !.pc = "set_processing"]]
    /\ UNCHANGED <<xt, rl, vs, qr, pb, ck, rt, documents, embeddings, apiCalls>>

\* The PROCESSING update (ingest.ts 136-139).
SetProcessing(i, ok) ==
    /\ inv[i].pc = "set_processing"
    /\ IF ok
       THEN /\ documents' = [documents EXCEPT ![inv[i].doc] =
                                ProcessingRow(@, inv[i].meta)]
            /\ inv' = [inv EXCEPT ![i].setProc = TRUE, ![i].pc = "fetch"]
       ELSE /\ inv' = [inv EXCEPT ![i] = Throw(@, "query_failed", TRUE)]
            /\ UNCHANGED documents
    /\ UNCHANGED <<xt, rl, vs, qr, pb, ck, rt, embeddings, apiCalls>>

\* store.get(blobPath) (ingest.ts 142-148).  metadata.blob_path is set by
\* every upload.
FetchBlob(i, outcome) ==
    /\ inv[i].pc = "fetch"
    /\ inv' = [inv EXCEPT ![i] =
          CASE outcome = "data"  -> [@ EXCEPT !.pc = "extract"]
            [] outcome = "null"  -> Throw(@, "blob_not_found", TRUE)
            [] outcome = "error" -> Throw(@, "blob_failed", TRUE)]
    /\ UNCHANGED <<xt, rl, vs, qr, pb, ck, rt, documents, embeddings, apiCalls>>

\* extractText, cleanText, the empty check, and the call of chunkText
\* (ingest.ts 151-165).
Extract(i, ok) ==
    /\ inv[i].pc = "extract"
    /\ LET file == documents[inv[i].doc].file
       IN  inv' = [inv EXCEPT ![i] =
              IF ~ok THEN Throw(@, "extract_failed", TRUE)
              ELSE IF file = "empty" THEN Throw(@, "no_text", TRUE)
              ELSE [@ EXCEPT !.pc = "chunk",
                             !.loop = ChunkEnter(
                                [k |-> WordsOfFile(file), lead |-> FALSE, trail |-> FALSE],
                                DefaultMaxTokens, DefaultOverlapTokens)]]
    /\ UNCHANGED <<xt, rl, vs, qr, pb, ck, rt, documents, embeddings, apiCalls>>

\* One test or one body of the loop of chunkText(cleanedText) (ingest.ts
\* 165).  The array grown without end ends the call in one of two ways:
\* the process dies (no finally, no catch, no response), or push throws a
\* RangeError inside the try block of the handler, which goes to its
\* finally and catch blocks.
Chunking(i, o) ==
    /\ inv[i].pc = "chunk"
    /\ LET l == IF inv[i].loop.pc = "test" THEN ChunkTest(inv[i].loop)
                ELSE ChunkBody(inv[i].loop, o)
       IN  inv' = [inv EXCEPT ![i] =
              CASE l.pc = "aborted"  -> [@ EXCEPT !.loop = l, !.pc = "crashed"]
                [] l.pc = "thrown"   ->
                      Throw([@ EXCEPT !.loop = l], "invalid_array_length", TRUE)
                [] l.pc = "returned" -> [@ EXCEPT !.loop = l, !.pc = "chunked"]
                [] OTHER             -> [@ EXCEPT !.loop = l]]
    /\ UNCHANGED <<xt, rl, vs, qr, pb, ck, rt, documents, embeddings, apiCalls>>

\* finally { await client.end() } on a failure path (ingest.ts 221-223,
\* 617-619).
FinallyEnd(i) ==
    /\ inv[i].pc = "finally"
    /\ inv' = [inv EXCEPT ![i].pc = "catch", ![i].open = @ \ {"primary"}]
    /\ UNCHANGED <<xt, rl, vs, qr, pb, ck, rt, documents, embeddings, apiCalls>>

\* Mutant: the error of the secondary connection replaces the primary one.
CatchConnectRethrows(i, ok) ==
    /\ inv[i].pc = "catch"
    /\ inv' = [inv EXCEPT ![i] =
          IF ~ok \/ @.req.kind = "malformed"
          THEN [@ EXCEPT !.conn2 = ok, !.pc = "done", !.status = 500, !.err = "db_error",
                         !.open = IF ok THEN {"secondary"} ELSE {}]
          ELSE IF CatchHasDocId(@.req)
               THEN [@ EXCEPT !.conn2 = TRUE, !.errIssued = TRUE, !.pc = "mark_error",
                              !.open = {"secondary"}]
          ELSE [@ EXCEPT !.conn2 = TRUE, !.pc = "catch_end", !.open = {"secondary"}]]
    /\ UNCHANGED <<xt, rl, vs, qr, pb, ck, rt, documents, embeddings, apiCalls>>

\* catch: connect a second client, parse the body again (ingest.ts 621-634).
\* A failure here is logged and the 500 response returned; the statements
\* left of the inner try block, client.end() among them, are skipped.
CatchConnect(i, ok) ==
    /\ inv[i].pc = "catch"
    /\ inv' = [inv EXCEPT ![i] =
          IF ~ok \/ @.req.kind = "malformed"
          THEN [@ EXCEPT !.conn2 = ok, !.pc = "done", !.status = 500,
                         !.open = IF ok THEN {"secondary"} ELSE {}]
          ELSE IF CatchHasDocId(@.req)
               THEN [@ EXCEPT !.conn2 = TRUE, !.errIssued = TRUE, !.pc = "mark_error",
                              !.open = {"secondary"}]
          ELSE [@ EXCEPT !.conn2 = TRUE, !.pc = "catch_end", !.open = {"secondary"}]]
    /\ UNCHANGED <<xt, rl, vs, qr, pb, ck, rt, documents, embeddings, apiCalls>>

\* The ERROR update of the catch block (ingest.ts 635-640); its failure is
\* logged.
MarkError(i, ok) ==
    /\ inv[i].pc = "mark_error"
    /\ IF ok
       THEN /\ documents' = ErrorRows(documents, inv[i].req)
            /\ inv' = [inv EXCEPT ![i].pc = "catch_end"]
       ELSE /\ inv' = [inv EXCEPT ![i].pc = "done", ![i].status = 500,
                                  ![i].markFailed = TRUE]
            /\ UNCHANGED documents
    /\ UNCHANGED <<xt, rl, vs, qr, pb, ck, rt, embeddings, apiCalls>>

\* await client.end() of the catch block and the 500 response (ingest.ts 643-658).
CatchEnd(i) ==
    /\ inv[i].pc = "catch_end"
    /\ inv' = [inv EXCEPT ![i].pc = "done", ![i].status = 500,
                           ![i].open = @ \ {"secondary"}]
    /\ UNCHANGED <<xt, rl, vs, qr, pb, ck, rt, documents, embeddings, apiCalls>>

\* The response is delivered; the slot serves the next request.
Return(i) ==
    /\ inv[i].pc = "done"
    /\ inv' = [inv EXCEPT ![i] = IdleInv]
    /\ UNCHANGED <<xt, rl, vs, qr, pb, ck, rt, documents, embeddings, apiCalls>>

\* Spec: the handler as written, in both variants, on documents
\* 1..MaxUploads.
SpecDocs == {d \in DocIds : d <= MaxUploads}
SpecRequests == RequestsOn(SpecDocs) \cup DirectRequestsOn(SpecDocs)

Next ==
    \/ \E d \in SpecDocs, f \in {"empty", "A"} : Upload(d, f)
    \/ \E i \in Slots, r \in SpecRequests : Invoke(i, r)
    \/ \E i \in Slots, ok \in BOOLEAN : Connect(i, ok)
    \/ \E i \in Slots, ok \in BOOLEAN : Resolve(i, ok)
    \/ \E i \in Slots, ok \in BOOLEAN : SetProcessing(i, ok)
    \/ \E i \in Slots, o \in {"data", "null", "error"} : FetchBlob(i, o)
    \/ \E i \in Slots, ok \in BOOLEAN : Extract(i, ok)
    \/ \E i \in Slots, o \in ArrayEnds : Chunking(i, o)
    \/ \E i \in Slots : FinallyEnd(i)
    \/ \E i \in Slots, ok \in BOOLEAN : CatchConnect(i, ok)
    \/ \E i \in Slots, ok \in BOOLEAN : MarkError(i, ok)
    \/ \E i \in Slots : CatchEnd(i)
    \/ \E i \in Slots : Return(i)

Spec == Init /\ [][Next]_vars

(***************************************************************************)
(* StoreSpec: calls of processEmbeddingsBatch(chunks, client, dbDocId)     *)
(* (ingest.ts 364-448) over the table rag.embeddings, two of them at most, *)
(* one after the other or at the same time, each on its own connection.    *)
(* The handler never gets as far as this call (chunkText does not return), *)
(* so the function is entered with its arguments, as BatchSpec does: a     *)
(* chunk list and the id of an uploaded document.  A slot of inv holds the *)
(* locals of one call.                                                     *)
(*                                                                         *)
(* One client connection executes its queries in the order they were       *)
(* queued.  The tasks of a batch start together: each queues its SELECT    *)
(* before any task continues, so the SELECTs of a batch are answered in    *)
(* chunk order and before any INSERT of that batch.  getEmbeddingWithRetry *)
(* is one step here (RetrySpec has its attempts): it returns an embedding  *)
(* or throws, and the API may return different vectors for the same text.  *)
(***************************************************************************)

\* generateContentHash (ingest.ts 332-334): the SHA-256 digest, one per content.
generateContentHash(content) == content

\* generateFakeEmbedding (ingest.ts 58-70): a function of the text.
generateFakeEmbedding(content) == IF content = "a" THEN "fake_a" ELSE "fake_b"

\* SELECT embedding FROM rag.embeddings WHERE content_hash = $1 (ingest.ts 382-385):
\* the positions of the rows selected.
CacheRows(rows, hash) == {x \in 1..Len(rows) : rows[x].content_hash = hash}

\* The task indices of the batch in progress: chunks.slice(i, i + batchSize).
BatchOf(v) == {k \in 1..Len(v.tasks) : v.batch < k /\ k <= v.batch + batchSize}

\* await Promise.allSettled(embeddingPromises) (ingest.ts 430).
BatchSettled(v) ==
    \A k \in BatchOf(v) : v.tasks[k].pc = "failed"

\* processEmbeddingsBatch(chunks, client, d) is called (ingest.ts 364-379):
\* the tasks of the first batch are started.  d is the id of a row of
\* rag.documents (document_id REFERENCES rag.documents).  A call is held by
\* the lowest free slot.
BatchCall(i, chunks, d) ==
    /\ inv[i].pc = "idle"
    /\ \A j \in Slots : j < i => inv[j].pc # "idle"
    /\ documents[d].present
    /\ inv' = [inv EXCEPT ![i] =
          [IdleInv EXCEPT !.pc = "embed", !.doc = d, !.chunks = chunks, !.batch = 0,
                          !.tasks = [k \in 1..Len(chunks) |->
                                       [pc |-> IF k <= batchSize THEN "lookup" ELSE "wait",
                                        emb |-> "none"]]]]
    /\ UNCHANGED <<xt, rl, vs, qr, pb, ck, rt, documents, embeddings, apiCalls>>

\* The cache lookup of one task is answered (ingest.ts 382-395).  On a hit
\* embedding is rows[0].embedding, which the driver delivers as the text of
\* the vector (no parser is registered for the type): embedding.join
\* (ingest.ts 415) is not a function, the TypeError is caught by the task
\* (ingest.ts 424-427) and no INSERT is issued.
Lookup(i, k, ok) ==
    /\ inv[i].pc = "embed"
    /\ k \in BatchOf(inv[i])
    /\ inv[i].tasks[k].pc = "lookup"
    /\ \A j \in BatchOf(inv[i]) : j < k => inv[i].tasks[j].pc # "lookup"
    /\ LET hit == CacheRows(embeddings, generateContentHash(inv[i].chunks[k]))
       IN  inv' = [inv EXCEPT ![i].tasks[k] =
              IF ~ok THEN [@ EXCEPT !.pc = "failed"]
              ELSE IF hit # {} THEN [@ EXCEPT !.pc = "failed"]
              ELSE [@ EXCEPT !.pc = "api"]]
    /\ UNCHANGED <<xt, rl, vs, qr, pb, ck, rt, documents, embeddings, apiCalls>>

\* embedding = await getEmbeddingWithRetry(chunk) (ingest.ts 392-395).
Embed(i, k, ok, v) ==
    /\ inv[i].pc = "embed"
    /\ k \in BatchOf(inv[i])
    /\ inv[i].tasks[k].pc = "api"
    /\ apiCalls' = [apiCalls EXCEPT ![inv[i].chunks[k]] = @ + 1]
    /\ inv' = [inv EXCEPT ![i].tasks[k] =
          IF ok THEN [pc |-> "upsert", emb |-> v] ELSE [@ EXCEPT !.pc = "failed"]]
    /\ UNCHANGED <<xt, rl, vs, qr, pb, ck, rt, documents, embeddings>>

\* The INSERT ... ON CONFLICT of one task is answered (ingest.ts 399-421).
\* Its DO UPDATE sets updated_at, a column rag.embeddings does not have
\* (db-migrate.ts 62-73): the statement is rejected whatever its parameters,
\* the table is left as it was, and the error is caught by the task
\* (ingest.ts 424-427).
Upsert(i, k) ==
    /\ inv[i].pc = "embed"
    /\ k \in BatchOf(inv[i])
    /\ inv[i].tasks[k].pc = "upsert"
    /\ \A j \in BatchOf(inv[i]) : inv[i].tasks[j].pc # "lookup"
    /\ inv' = [inv EXCEPT ![i].tasks[k].pc = "failed"]
    /\ UNCHANGED <<xt, rl, vs, qr, pb, ck, rt, documents, embeddings, apiCalls>>

\* The batch has settled (ingest.ts 430-446): failures are logged; the next
\* batch starts after the delay, or processEmbeddingsBatch returns.
Settle(i) ==
    /\ inv[i].pc = "embed"
    /\ BatchSettled(inv[i])
    /\ inv' = [inv EXCEPT ![i] =
          IF @.batch + batchSize < Len(@.tasks)
          THEN [@ EXCEPT !.batch = @ + batchSize,
                         !.tasks = [k \in 1..Len(inv[i].tasks) |->
                                     IF inv[i].batch + batchSize < k
                                        /\ k <= inv[i].batch + 2 * batchSize
                                     THEN [inv[i].tasks[k] EXCEPT !.pc = "lookup"]
                                     ELSE inv[i].tasks[k]]]
          ELSE [@ EXCEPT !.pc = "returned"]]
    /\ UNCHANGED <<xt, rl, vs, qr, pb, ck, rt, documents, embeddings, apiCalls>>

\* The chunk lists of the calls of StoreSpec: two chunks of equal content,
\* and two chunks of which the first has that content too.
StoreLists == {<<"a", "a">>, <<"a", "b">>}

\* The tables of StoreSpec: rag.embeddings empty, or holding one row with the
\* content hash of "b" for document 1.
StoreTables ==
    {<<>>,
     <<[document_id |-> 1, chunk_index |-> 0, content |-> "b",
        content_hash |-> generateContentHash("b"), embedding |-> "v1"]>>}

StoreInit ==
    /\ ck = ChunkIdle
    /\ rt = RetryIdle
    /\ pb = BatchIdle
    /\ vs = SearchIdle
    /\ qr = QueryIdle
    /\ documents = [d \in DocIds |-> UploadedRow("A")]
    /\ embeddings \in StoreTables
    /\ apiCalls = [c \in Contents |-> 0]
    /\ xt = ExtractIdle
    /\ rl = RateIdle
    /\ inv = NoInvocations

StoreNext ==
    \/ \E i \in Slots, c \in StoreLists, d \in DocIds : BatchCall(i, c, d)
    \/ \E i \in Slots, k \in 1..2, ok \in BOOLEAN : Lookup(i, k, ok)
    \/ \E i \in Slots, k \in 1..2, ok \in BOOLEAN, v \in EmbValues : Embed(i, k, ok, v)
    \/ \E i \in Slots, k \in 1..2 : Upsert(i, k)
    \/ \E i \in Slots : Settle(i)

StoreSpec == StoreInit /\ [][StoreNext]_vars

(***************************************************************************)
(* HandlerSpec: one invocation of the ingest handler, of either variant,   *)
(* from its entry to its response or to the death of the process, on one   *)
(* document, with every failure of its collaborators: the connections, the *)
(* statements, the blob read, the extraction, and the connection and       *)
(* update of the catch block.                                              *)
(***************************************************************************)
HandlerRequests == RequestsOn({1}) \cup DirectRequestsOn({1})

HandlerNext ==
    \/ \E f \in Files : Upload(1, f)
    \/ \E r \in HandlerRequests : Invoke(1, r)
    \/ \E ok \in BOOLEAN : Connect(1, ok)
    \/ \E ok \in BOOLEAN : Resolve(1, ok)
    \/ \E ok \in BOOLEAN : SetProcessing(1, ok)
    \/ \E o \in {"data", "null", "error"} : FetchBlob(1, o)
    \/ \E ok \in BOOLEAN : Extract(1, ok)
    \/ \E o \in ArrayEnds : Chunking(1, o)
    \/ FinallyEnd(1)
    \/ \E ok \in BOOLEAN : CatchConnect(1, ok)
    \/ \E ok \in BOOLEAN : MarkError(1, ok)
    \/ CatchEnd(1)

HandlerSpec == Init /\ [][HandlerNext]_vars

(***************************************************************************)
(* ChunkSpec: chunkText as a function.                                     *)
(***************************************************************************)
ChunkInit ==
    /\ ck \in ChunkCalls
    /\ rt = RetryIdle
    /\ pb = BatchIdle
    /\ vs = SearchIdle
    /\ qr = QueryIdle
    /\ documents = NoDocuments
    /\ embeddings = <<>>
    /\ apiCalls = [c \in Contents |-> 0]
    /\ xt = ExtractIdle
    /\ rl = RateIdle
    /\ inv = NoInvocations

ChunkLoopTest ==
    /\ ck.pc = "test"
    /\ ck' = ChunkTest(ck)
    /\ UNCHANGED <<xt, rl, vs, qr, pb, rt, documents, embeddings, apiCalls, inv>>

ChunkLoopBody ==
    /\ ck.pc = "body"
    /\ \E o \in ArrayEnds : ck' = ChunkBody(ck, o)
    /\ UNCHANGED <<xt, rl, vs, qr, pb, rt, documents, embeddings, apiCalls, inv>>

ChunkNext == ChunkLoopTest \/ ChunkLoopBody

ChunkSpec == ChunkInit /\ [][ChunkNext]_vars

\* A call that is scheduled keeps running: the loop is not starved.
ChunkFairSpec == ChunkSpec /\ WF_vars(ChunkNext)

(***************************************************************************)
(* RetrySpec: getEmbeddingWithRetry as a function.                         *)
(***************************************************************************)
RetryInit ==
    /\ rt \in {RetryEnter(m) : m \in 1..MaxRetriesArg}
    /\ ck = ChunkIdle
    /\ pb = BatchIdle
    /\ vs = SearchIdle
    /\ qr = QueryIdle
    /\ documents = NoDocuments
    /\ embeddings = <<>>
    /\ apiCalls = [c \in Contents |-> 0]
    /\ xt = ExtractIdle
    /\ rl = RateIdle
    /\ inv = NoInvocations

RetryOk ==
    /\ rt.pc = "call"
    /\ \E v \in EmbValues : rt' = RetryCallOk(rt, v)
    /\ UNCHANGED <<xt, rl, vs, qr, pb, ck, documents, embeddings, apiCalls, inv>>

RetryFail ==
    /\ rt.pc = "call"
    /\ \E e \in ApiErrors : rt' = RetryCallFail(rt, e)
    /\ UNCHANGED <<xt, rl, vs, qr, pb, ck, documents, embeddings, apiCalls, inv>>

RetryTimer ==
    /\ rt.pc = "sleep"
    /\ rt.now >= rt.wakeAt
    /\ rt' = RetryWake(rt)
    /\ UNCHANGED <<xt, rl, vs, qr, pb, ck, documents, embeddings, apiCalls, inv>>

\* Time passes while a call is pending or a timer is armed.
RetryTick ==
    /\ rt.pc \in {"call", "sleep"}
    /\ rt.now < MaxTime
    /\ rt' = [rt EXCEPT !.now = @ + 1]
    /\ UNCHANGED <<xt, rl, vs, qr, pb, ck, documents, embeddings, apiCalls, inv>>

RetryNext == RetryOk \/ RetryFail \/ RetryTimer \/ RetryTick

RetrySpec == RetryInit /\ [][RetryNext]_vars

(***************************************************************************)
(* BatchSpec: processEmbeddingsBatch as a function.                        *)
(***************************************************************************)
BatchInit ==
    /\ pb \in {BatchEnter(n) : n \in BatchLengths}
    /\ ck = ChunkIdle
    /\ rt = RetryIdle
    /\ vs = SearchIdle
    /\ qr = QueryIdle
    /\ documents = NoDocuments
    /\ embeddings = <<>>
    /\ apiCalls = [c \in Contents |-> 0]
    /\ xt = ExtractIdle
    /\ rl = RateIdle
    /\ inv = NoInvocations

\* One connection answers its queries in the order queued: the SELECTs of a
\* batch in chunk order, and before any INSERT of the batch.
BatchLookup ==
    /\ pb.pc = "batch"
    /\ \E k \in InBatch(pb), answer \in {"hit", "miss", "error"} :
          /\ pb.tasks[k] = "lookup"
          /\ \A j \in InBatch(pb) : j < k => pb.tasks[j] # "lookup"
          /\ pb' = TaskLookup(pb, k, answer)
    /\ UNCHANGED <<xt, rl, vs, qr, ck, rt, documents, embeddings, apiCalls, inv>>

BatchEmbed ==
    /\ pb.pc = "batch"
    /\ \E k \in InBatch(pb), ok \in BOOLEAN :
          /\ pb.tasks[k] = "api"
          /\ pb' = TaskEmbed(pb, k, ok)
    /\ UNCHANGED <<xt, rl, vs, qr, ck, rt, documents, embeddings, apiCalls, inv>>

BatchUpsert ==
    /\ pb.pc = "batch"
    /\ \E k \in InBatch(pb) :
          /\ pb.tasks[k] = "upsert"
          /\ \A j \in InBatch(pb) : pb.tasks[j] # "lookup"
          /\ pb' = TaskUpsert(pb, k)
    /\ UNCHANGED <<xt, rl, vs, qr, ck, rt, documents, embeddings, apiCalls, inv>>

BatchSettle ==
    /\ pb.pc = "batch"
    /\ \A k \in InBatch(pb) : pb.tasks[k] = "failed"
    /\ pb' = BatchAfter(pb)
    /\ UNCHANGED <<xt, rl, vs, qr, ck, rt, documents, embeddings, apiCalls, inv>>

\* The timer of sleep(1000) fires.
BatchTimer ==
    /\ pb.pc = "sleep"
    /\ pb.now >= pb.wakeAt
    /\ pb' = BatchLoop(pb)
    /\ UNCHANGED <<xt, rl, vs, qr, ck, rt, documents, embeddings, apiCalls, inv>>

\* No delay: the for loop goes on at once.
BatchContinue ==
    /\ pb.pc = "next"
    /\ pb' = BatchLoop(pb)
    /\ UNCHANGED <<xt, rl, vs, qr, ck, rt, documents, embeddings, apiCalls, inv>>

\* Time passes while the timer is armed.
BatchTick ==
    /\ pb.pc = "sleep"
    /\ pb.now < MaxBatchTime
    /\ pb' = [pb EXCEPT !.now = @ + 1]
    /\ UNCHANGED <<xt, rl, vs, qr, ck, rt, documents, embeddings, apiCalls, inv>>

BatchNext ==
    \/ BatchLookup \/ BatchEmbed \/ BatchUpsert \/ BatchSettle
    \/ BatchTimer \/ BatchContinue \/ BatchTick

BatchSpec == BatchInit /\ [][BatchNext]_vars

(***************************************************************************)
(* SearchSpec: vectorSearch as a function, on the tables it is given:      *)
(* documents 1 and 2 are uploaded; a row of rag.embeddings belongs to a    *)
(* chunk position of one of them; a row with a content hash carries an     *)
(* embedding of the API, and there is one such row per hash at most (the   *)
(* column is UNIQUE); a row without hash (the column is nullable) carries  *)
(* the embedding of generateFakeEmbedding, as the INSERT of the direct     *)
(* variant (ingest.ts 177-192) has it.                                     *)
(***************************************************************************)

\* Bounds: the rows of the store, and the limits asked for.
MaxRows == 3
MaxLimit == 4

\* The content of the chunk at position k of document d in the stores
\* searched: document 1 has the content a twice, document 2 has a and b.
StoreContent(d, k) == IF d = 1 \/ k = 1 THEN "a" ELSE "b"

StoreRows ==
    {[document_id |-> d, chunk_index |-> k - 1,
      content |-> StoreContent(d, k),
      content_hash |-> IF hashed THEN generateContentHash(StoreContent(d, k))
                       ELSE "null",
      embedding |-> IF hashed THEN v
                    ELSE generateFakeEmbedding(StoreContent(d, k))] :
        d \in DocIds, k \in 1..2, hashed \in BOOLEAN, v \in EmbValues}

Stores ==
    UNION {{s \in [1..n -> StoreRows] :
               \A x, y \in 1..n :
                   (s[x].content_hash # "null" /\ s[x].content_hash = s[y].content_hash)
                       => x = y} : n \in 0..MaxRows}

\* Both documents uploaded.
UploadedDocuments == [d \in DocIds |-> UploadedRow("A")]

\* The doc_id filters asked for: none, a document, or an unknown doc_id.
Filters == {NoFilter} \cup DocIds \cup {3}

SearchInit ==
    /\ vs = SearchIdle
    /\ documents = UploadedDocuments
    /\ embeddings \in Stores
    /\ ck = ChunkIdle
    /\ rt = RetryIdle
    /\ pb = BatchIdle
    /\ qr = QueryIdle
    /\ apiCalls = [c \in Contents |-> 0]
    /\ xt = ExtractIdle
    /\ rl = RateIdle
    /\ inv = NoInvocations

SearchCall ==
    /\ vs.pc = "idle"
    /\ \E q \in QueryVectors, d \in Filters, k \in 0..MaxLimit :
          vs' = SearchEnter(q, d, k)
    /\ UNCHANGED <<xt, rl, ck, rt, pb, qr, documents, embeddings, apiCalls, inv>>

\* await client.query(query, params) resolves, and the rows are mapped.
SearchReturn ==
    /\ vs.pc = "query"
    /\ \E r \in VectorSearch(embeddings, documents, vs.qvec, vs.docId, vs.topK) :
          vs' = [vs EXCEPT !.pc = "returned", !.result = r]
    /\ UNCHANGED <<xt, rl, ck, rt, pb, qr, documents, embeddings, apiCalls, inv>>

\* The query rejects: vectorSearch throws.
SearchThrow ==
    /\ vs.pc = "query"
    /\ vs' = [vs EXCEPT !.pc = "thrown"]
    /\ UNCHANGED <<xt, rl, ck, rt, pb, qr, documents, embeddings, apiCalls, inv>>

SearchNext == SearchCall \/ SearchReturn \/ SearchThrow

SearchSpec == SearchInit /\ [][SearchNext]_vars

(***************************************************************************)
(* QuerySpec: one query request to either variant of the handler, on a     *)
(* store of rows that carry a content hash.                                *)
(***************************************************************************)

\* Bounds: the rows of the store queried, and the deltas of a stream.
MaxQueryRows == 2
MaxDeltas == 2

\* delta.content of a stream item: a piece of text, or none.
Deltas == {"t1", "t2", ""}

QueryStores ==
    {s \in Stores : Len(s) <= MaxQueryRows /\ \A x \in 1..Len(s) : s[x].content_hash # "null"}

\* The requests: well-formed bodies with the values of top_k around its
\* bounds, and one request for each other way of being turned away.
QueryRequests ==
    [method : {"POST"}, ip : {"a"}, body : {"json"}, prompt : {"ok", "blank"},
     doc_id : {NoFilter, 2}, top_k : {NoTopK, 0, 1, 20, 21}, sse : BOOLEAN]
    \cup {[NoQueryRequest EXCEPT !.method = "GET"],
          [NoQueryRequest EXCEPT !.ip = "b"],
          [NoQueryRequest EXCEPT !.body = "none", !.prompt = "missing"],
          [NoQueryRequest EXCEPT !.body = "invalid", !.prompt = "missing"],
          [NoQueryRequest EXCEPT !.prompt = "empty"],
          [NoQueryRequest EXCEPT !.prompt = "long"],
          [NoQueryRequest EXCEPT !.prompt = "missing"]}

\* The limiter when the request arrives: never called, or called by client
\* "a" as often as one window allows.
QueryLimiters == {RateIdle, RateUsedUp("a")}

QueryInit ==
    /\ qr = QueryIdle
    /\ documents = UploadedDocuments
    /\ embeddings \in QueryStores
    /\ vs = SearchIdle
    /\ ck = ChunkIdle
    /\ rt = RetryIdle
    /\ pb = BatchIdle
    /\ apiCalls = [c \in Contents |-> 0]
    /\ xt = ExtractIdle
    /\ rl \in QueryLimiters
    /\ inv = NoInvocations

\* A request arrives: the limiter is called first, for the POST requests of
\* the validated variant, and keeps its count.
QReceive ==
    /\ qr.pc = "idle"
    /\ \E variant \in {"validated", "plain"}, req \in QueryRequests :
          IF CallsLimiter(variant, req)
          THEN /\ rl' = RateApply(rl, req.ip)
               /\ qr' = QueryEnter(variant, req,
                                   checkRateLimit(rl.map, rl.now, req.ip).allowed)
          ELSE /\ rl' = rl
               /\ qr' = QueryEnter(variant, req, TRUE)
    /\ UNCHANGED <<xt, ck, rt, pb, vs, documents, embeddings, apiCalls, inv>>

\* await client.connect(): outside the inner try, so a failure goes to the
\* catch block without the finally.
QConnect ==
    /\ qr.pc = "connect"
    /\ \E ok \in BOOLEAN :
          qr' = [Called(qr, "connect", ok) EXCEPT !.pc = IF ok THEN "embed" ELSE "catch"]
    /\ UNCHANGED <<xt, rl, ck, rt, pb, vs, documents, embeddings, apiCalls, inv>>

\* await getQueryEmbedding(prompt).
QEmbed ==
    /\ qr.pc = "embed"
    /\ \/ \E v \in QueryVectors :
             qr' = [Called(qr, "embed", TRUE) EXCEPT !.qvec = v, !.pc = "search"]
       \/ qr' = QueryThrow(Called(qr, "embed", FALSE))
    /\ UNCHANGED <<xt, rl, ck, rt, pb, vs, documents, embeddings, apiCalls, inv>>

\* await vectorSearch(client, queryEmbedding, doc_id, top_k), the test for no
\* results and the packing of the context.
QSearch ==
    /\ qr.pc = "search"
    /\ \/ \E r \in VectorSearch(embeddings, documents, qr.qvec, qr.req.doc_id, qr.top_k) :
             qr' = AfterSearch(Called(qr, "search", TRUE), r)
       \/ qr' = QueryThrow(Called(qr, "search", FALSE))
    /\ UNCHANGED <<xt, rl, ck, rt, pb, vs, documents, embeddings, apiCalls, inv>>

\* await logRetrieval(...), validated variant.
QLog ==
    /\ qr.pc = "log"
    /\ \E ok \in BOOLEAN : qr' = AfterLog(Called(qr, "log", ok), ok)
    /\ UNCHANGED <<xt, rl, ck, rt, pb, vs, documents, embeddings, apiCalls, inv>>

\* streamChatCompletion: the completion is requested with stream: true.
QStreamCreate ==
    /\ qr.pc = "generate"
    /\ qr.req.sse
    /\ \/ qr' = [Called(qr, "complete", TRUE) EXCEPT !.sse = StreamHead(qr), !.pc = "stream"]
       \/ qr' = StreamCatch(Called(qr, "complete", FALSE))
    /\ UNCHANGED <<xt, rl, ck, rt, pb, vs, documents, embeddings, apiCalls, inv>>

\* for await (const chunk of stream): one item arrives.
QStreamDelta ==
    /\ qr.pc = "stream"
    /\ Len(qr.deltas) < MaxDeltas
    /\ \E d \in Deltas : qr' = StreamDelta(qr, d)
    /\ UNCHANGED <<xt, rl, ck, rt, pb, vs, documents, embeddings, apiCalls, inv>>

\* The stream fails between two items.
QStreamFail ==
    /\ qr.pc = "stream"
    /\ qr' = StreamCatch(qr)
    /\ UNCHANGED <<xt, rl, ck, rt, pb, vs, documents, embeddings, apiCalls, inv>>

QStreamEnd ==
    /\ qr.pc = "stream"
    /\ qr' = StreamFinish(qr)
    /\ UNCHANGED <<xt, rl, ck, rt, pb, vs, documents, embeddings, apiCalls, inv>>

\* The completion without streaming.
QComplete ==
    /\ qr.pc = "generate"
    /\ ~qr.req.sse
    /\ \/ \E content \in {"", "t1"} : qr' = RespondAnswer(Called(qr, "complete", TRUE), content)
       \/ qr' = QueryThrow(Called(qr, "complete", FALSE))
    /\ UNCHANGED <<xt, rl, ck, rt, pb, vs, documents, embeddings, apiCalls, inv>>

\* finally { await client.end() }: the response is returned, or the error
\* goes on to the catch block.
QFinally ==
    /\ qr.pc = "finally"
    /\ qr' = [qr EXCEPT !.pc = IF qr.thrown THEN "catch" ELSE "done"]
    /\ UNCHANGED <<xt, rl, ck, rt, pb, vs, documents, embeddings, apiCalls, inv>>

\* catch (error): the 500 response.
QCatch ==
    /\ qr.pc = "catch"
    /\ qr' = Respond(qr, 500, IF qr.variant = "validated" THEN "ERROR" ELSE "none")
    /\ UNCHANGED <<xt, rl, ck, rt, pb, vs, documents, embeddings, apiCalls, inv>>

QueryNext ==
    \/ QReceive \/ QConnect \/ QEmbed \/ QSearch \/ QLog
    \/ QStreamCreate \/ QStreamDelta \/ QStreamFail \/ QStreamEnd
    \/ QComplete \/ QFinally \/ QCatch

QuerySpec == QueryInit /\ [][QueryNext]_vars

(***************************************************************************)
(* ExtractSpec: extractText called on a buffer, a filename and a media     *)
(* type.                                                                   *)
(***************************************************************************)
ExtractInit ==
    /\ xt = ExtractIdle
    /\ rl = RateIdle
    /\ ck = ChunkIdle
    /\ rt = RetryIdle
    /\ pb = BatchIdle
    /\ vs = SearchIdle
    /\ qr = QueryIdle
    /\ documents = NoDocuments
    /\ embeddings = <<>>
    /\ apiCalls = [c \in Contents |-> 0]
    /\ inv = NoInvocations

ExtractCall ==
    /\ xt.pc = "idle"
    /\ \E b \in Buffers, f \in Filenames, m \in Mimetypes : xt' = ExtractEnter(b, f, m)
    /\ UNCHANGED <<rl, ck, rt, pb, vs, qr, documents, embeddings, apiCalls, inv>>

ExtractLibrary ==
    /\ xt.pc = "library"
    /\ \E ok \in BOOLEAN : xt' = ExtractSettle(xt, ok)
    /\ UNCHANGED <<rl, ck, rt, pb, vs, qr, documents, embeddings, apiCalls, inv>>

ExtractNext == ExtractCall \/ ExtractLibrary

ExtractSpec == ExtractInit /\ [][ExtractNext]_vars

(***************************************************************************)
(* RateSpec: calls of checkRateLimit by two clients while the clock goes   *)
(* on by a millisecond or by a window.  Client "a" calls freely; client    *)
(* "b" makes a few calls per window.                                       *)
(***************************************************************************)
MaxTicks == 2
MaxOtherCalls == 1

RateInit ==
    /\ rl = RateIdle
    /\ xt = ExtractIdle
    /\ ck = ChunkIdle
    /\ rt = RetryIdle
    /\ pb = BatchIdle
    /\ vs = SearchIdle
    /\ qr = QueryIdle
    /\ documents = NoDocuments
    /\ embeddings = <<>>
    /\ apiCalls = [c \in Contents |-> 0]
    /\ inv = NoInvocations

\* const rateLimitResult = checkRateLimit(clientIP) at the time rl.now.
RateCall(k) ==
    /\ k = "b" => (rl.map[k].present => rl.map[k].count < MaxOtherCalls)
    /\ rl' = RateApply(rl, k)
    /\ UNCHANGED <<xt, ck, rt, pb, vs, qr, documents, embeddings, apiCalls, inv>>

\* Date.now() goes on by d milliseconds.
RateTick(d) ==
    /\ rl.ticks < MaxTicks
    /\ rl' = [rl EXCEPT !.now = @ + d, !.ticks = @ + 1]
    /\ UNCHANGED <<xt, ck, rt, pb, vs, qr, documents, embeddings, apiCalls, inv>>

RateNext ==
    \/ \E k \in Clients : RateCall(k)
    \/ \E d \in {1, RATE_LIMIT_WINDOW} : RateTick(d)

RateSpec == RateInit /\ [][RateNext]_vars

(***************************************************************************)
(* Claims about chunkText.                                                 *)
(***************************************************************************)
DefaultCall(c) ==
    c.maxTokens = DefaultMaxTokens /\ c.overlapTokens = DefaultOverlapTokens

\* C4: with the default parameters (maxTokens 700, overlapTokens 120) every
\* call of chunkText terminates: it reaches its return statement, whatever
\* the text.
C4_ChunkTextTerminates == DefaultCall(ck) ~> (ck.pc = "returned")

(***************************************************************************)
(* Claims about getEmbeddingWithRetry, for the default maxRetries (3).     *)
(***************************************************************************)
DefaultRetry == rt.pc # "idle" /\ rt.maxRetries = DefaultMaxRetries

FailedBefore(calls, k) == \A j \in 1..(k - 1) : ~calls[j].ok

\* C9: the embedding API is called at most 3 times; no call follows a
\* successful one; a success at attempt k returns that attempt's embedding
\* with no error; three failures throw the error of the third attempt.
C9_RetryAtMostThree ==
    DefaultRetry =>
        /\ Len(rt.calls) <= 3
        /\ FailedBefore(rt.calls, Len(rt.calls))
        /\ (rt.calls # <<>> /\ rt.calls[Len(rt.calls)].ok) => rt.pc = "returned"
        /\ rt.pc = "returned" =>
              /\ rt.calls # <<>>
              /\ rt.calls[Len(rt.calls)].ok
              /\ rt.result = rt.calls[Len(rt.calls)].val
              /\ rt.error = "none"
        /\ rt.pc = "thrown" =>
              /\ Len(rt.calls) = 3
              /\ ~rt.calls[3].ok
              /\ rt.error = rt.calls[3].val
              /\ rt.result = "none"

\* Witness of C9: fail, fail, succeed has returned the third embedding.
C9_Witness ==
    /\ DefaultRetry
    /\ rt.pc = "returned"
    /\ Len(rt.calls) = 3
    /\ rt.result = "v2"

\* The failed attempts that are followed by a backoff: all but attempt maxRetries.
BackedOff(r) == {k \in 1..Len(r.calls) : ~r.calls[k].ok /\ k < r.maxRetries}

\* C10: a backoff of 2^(attempt-1) seconds is requested after every failed
\* attempt but the final one, none after a success or the final failure (so
\* three failures wait 1s then 2s), and attempt k+1 is issued no earlier than
\* the backoff after attempt k has elapsed.
C10_BackoffSchedule ==
    DefaultRetry =>
        /\ rt.sleeps = [k \in 1..Cardinality(BackedOff(rt)) |-> 2 ^ (k - 1)]
        /\ rt.pc = "thrown" => rt.sleeps = <<1, 2>>
        /\ rt.pc = "returned" => Len(rt.sleeps) = Len(rt.calls) - 1
        /\ \A k \in 2..Len(rt.calls) :
              rt.calls[k].issued >= rt.calls[k - 1].at + rt.sleeps[k - 1]

\* Witness of C10: three failures, the third attempt issued after 1s + 2s.
C10_Witness ==
    /\ DefaultRetry
    /\ rt.pc = "thrown"
    /\ Len(rt.calls) = 3
    /\ rt.calls[3].issued >= 3

(***************************************************************************)
(* Claims about the document status and the failure path (Spec).           *)
(***************************************************************************)

LifecycleSteps ==
    {<<"UPLOADED", "PROCESSING">>, <<"PROCESSING", "READY">>, <<"PROCESSING", "ERROR">>}

\* C1: across uploads and ingest invocations, the status of a document changes
\* only by UPLOADED->PROCESSING, PROCESSING->READY and PROCESSING->ERROR.
C1_OnlyLifecycleTransitions ==
    [][\A d \in DocIds :
          documents[d].present =>
             \/ documents'[d].status = documents[d].status
             \/ <<documents[d].status, documents'[d].status>> \in LifecycleSteps]_vars

\* C2: an invocation that fails after it set the document to PROCESSING, by
\* an error its catch block receives or by the death of the process inside
\* chunkText, has issued the ERROR update (the secondary connection being
\* available when the catch block asks for it).
C2_ErrorUpdateIssued ==
    \A i \in Slots :
        (/\ inv[i].setProc
         /\ \/ inv[i].pc = "crashed"
            \/ inv[i].pc = "done" /\ inv[i].status = 500 /\ inv[i].conn2)
            => inv[i].errIssued

\* C3: an invocation that set a document to PROCESSING comes to a response,
\* not to the death of the process, and when it has returned, no status
\* update having failed, the document is READY or ERROR, unless another
\* invocation that set it to PROCESSING is still at work on it.
C3_ReturnedLeavesReadyOrError ==
    \A i \in Slots :
        inv[i].setProc =>
            /\ inv[i].pc # "crashed"
            /\ (/\ inv[i].pc = "done"
                /\ inv[i].status = 200 \/ (inv[i].conn2 /\ ~inv[i].markFailed))
                   => \/ documents[inv[i].doc].status \in {"READY", "ERROR"}
                      \/ \E j \in Slots \ {i} :
                            /\ inv[j].setProc
                            /\ inv[j].doc = inv[i].doc
                            /\ inv[j].pc \notin {"done", "crashed"}

(***************************************************************************)
(* Claim about the embedding cache (StoreSpec).                            *)
(***************************************************************************)

\* C6: for chunks of identical content, in one batch, one document or several
\* documents, the embedding API is invoked at most once for that content.
C6_EmbedOncePerContent ==
    \A c \in Contents : apiCalls[c] <= 1

(***************************************************************************)
(* Claims about processEmbeddingsBatch (BatchSpec).                        *)
(***************************************************************************)

\* C11: at no time are more than batchSize chunk tasks in flight, and a chunk
\* beyond the batch in progress is not started.
C11_AtMostBatchSizeInFlight ==
    pb.pc # "idle" =>
        /\ Cardinality(InFlight(pb)) <= batchSize
        /\ \A k \in 1..pb.n : k > pb.i + batchSize => pb.tasks[k] = "wait"

\* A full batch is in flight while a further chunk waits.
C11_Witness ==
    /\ pb.n > batchSize
    /\ Cardinality(InFlight(pb)) = batchSize
    /\ pb.tasks[batchSize + 1] = "wait"
    /\ \E k \in 1..batchSize : pb.tasks[k] = "api"

\* The batches of a list of n chunks.
BatchCount(n) == (n + batchSize - 1) \div batchSize

\* The index (from 0) of the batch of chunk k.
BatchIndex(k) == (k - 1) \div batchSize

\* Task k has been started and is no longer in flight.
TaskSettled(p, k) == p.tasks[k] # "wait" /\ k \notin InFlight(p)

\* C12: a chunk of a later batch is started only when every task of the
\* batches before has settled and one second has passed since the batch
\* before settled; when the call has returned, one delay of one second was
\* taken after every batch but the last.
C12_BatchesInSequence ==
    pb.pc # "idle" =>
        /\ \A k \in 1..pb.n :
              (pb.tasks[k] # "wait" /\ BatchIndex(k) > 0) =>
                 /\ \A j \in 1..(BatchIndex(k) * batchSize) : TaskSettled(pb, j)
                 /\ Len(pb.starts) > BatchIndex(k)
                 /\ Len(pb.settles) >= BatchIndex(k)
                 /\ pb.starts[BatchIndex(k) + 1] >= pb.settles[BatchIndex(k)] + 1
        /\ pb.pc = "returned" =>
              /\ Len(pb.sleeps) = BatchCount(pb.n) - 1
              /\ \A x \in 1..Len(pb.sleeps) : pb.sleeps[x] = 1

\* Two batches have run, one delay between them, none after the second.
C12_Witness ==
    /\ pb.pc = "returned"
    /\ pb.n > batchSize
    /\ pb.sleeps = <<1>>
    /\ Len(pb.starts) = 2
    /\ pb.starts[2] = pb.settles[1] + 1

\* C13: the failure of a chunk task does not reject the call, and when the
\* call has returned every chunk has been attempted: each task is settled.
C13_ChunkFailureIsolated ==
    /\ pb.pc # "thrown"
    /\ pb.pc = "returned" => \A k \in 1..pb.n : TaskSettled(pb, k)

\* The tasks of the first batch failed; the task of the next batch was
\* started after them and settled, and the call returned.
C13_Witness ==
    /\ pb.pc = "returned"
    /\ pb.n > batchSize
    /\ pb.tasks[1] = "failed"
    /\ Len(pb.starts) = 2
    /\ TaskSettled(pb, pb.n)

(***************************************************************************)
(* Claims about vectorSearch (SearchSpec).                                 *)
(***************************************************************************)

\* C19: for a search filtered by doc_id = D, every chunk returned is a row
\* whose document is D in the store searched.
C19_FilteredByDocument ==
    (vs.pc = "returned" /\ vs.docId # NoFilter) =>
        \A x \in 1..Len(vs.result) :
            /\ vs.result[x].id \in 1..Len(embeddings)
            /\ embeddings[vs.result[x].id].document_id = vs.docId
            /\ vs.result[x].document_title = vs.docId

\* A filtered search has returned a chunk whose content is also stored for the
\* other document, and a row of the other document was left out.
C19_Witness ==
    /\ vs.pc = "returned"
    /\ vs.docId = 2
    /\ Len(vs.result) >= 1
    /\ \E y \in 1..Len(embeddings) :
          /\ embeddings[y].document_id = 1
          /\ embeddings[y].content = vs.result[1].content
          /\ Distance(vs.qvec, embeddings[y].embedding) = 1 - vs.result[1].similarity

Returned(r) == {r[x].id : x \in 1..Len(r)}

\* C20: vectorSearch returns at most top_k chunks, no chunk twice, in order
\* of non-increasing similarity; no row of the scope left out is more similar
\* than a returned one; with fewer than top_k rows in scope all are returned.
C20_TopKRanked ==
    vs.pc = "returned" =>
        LET scope == {x \in 1..Len(embeddings) :
                         vs.docId = NoFilter \/ embeddings[x].document_id = vs.docId}
            sim(x) == 1 - Distance(vs.qvec, embeddings[x].embedding)
        IN  /\ Len(vs.result) <= vs.topK
            /\ Cardinality(Returned(vs.result)) = Len(vs.result)
            /\ Returned(vs.result) \subseteq scope
            /\ \A x \in 1..Len(vs.result) : vs.result[x].similarity = sim(vs.result[x].id)
            /\ \A x \in 1..(Len(vs.result) - 1) :
                  vs.result[x].similarity >= vs.result[x + 1].similarity
            /\ \A y \in scope \ Returned(vs.result), x \in 1..Len(vs.result) :
                  sim(y) <= vs.result[x].similarity
            /\ Cardinality(scope) < vs.topK => Returned(vs.result) = scope

(***************************************************************************)
(* Claims about the query handler (QuerySpec).                             *)
(***************************************************************************)

Terminal(ev) == ev.type \in {"end", "error"}

\* streamChatCompletion was called and has returned its body.
StreamReturned ==
    /\ qr.pc \in {"finally", "done"}
    /\ qr.req.sse
    /\ \E x \in 1..Len(qr.calls) : qr.calls[x].name = "complete"

\* C15: the body of a streaming response ends with one terminal event, end
\* or error, and holds no other terminal event.
C15_OneTerminalEvent ==
    StreamReturned =>
        LET ev == qr.resp.events
        IN  /\ Len(ev) >= 1
            /\ Terminal(ev[Len(ev)])
            /\ \A x \in 1..(Len(ev) - 1) : ~Terminal(ev[x])

\* The stream failed after a token had been written, and the body returned
\* ends with the error event.
C15_Witness ==
    /\ StreamReturned
    /\ \E x \in 1..Len(qr.sse) : qr.sse[x].type = "token"
    /\ qr.resp.events[Len(qr.resp.events)].type = "error"

\* The token events of the deltas that carry content, in order of arrival.
RECURSIVE TokenEvents(_)
TokenEvents(deltas) ==
    IF deltas = <<>> THEN <<>>
    ELSE (IF Head(deltas) # "" THEN <<Event("token", Head(deltas), <<>>)>> ELSE <<>>)
         \o TokenEvents(Tail(deltas))

\* C16: the body of a streaming response (validated variant) is one metadata
\* event, one chunks event listing the ranked sources, the token events of
\* the non-empty deltas in order of arrival, then the terminal event, also
\* when the generation fails.
C16_EventOrder ==
    (StreamReturned /\ qr.variant = "validated") =>
        \E last \in {"end", "error"} :
            qr.resp.events =
                <<Event("metadata", "", <<>>), Event("chunks", "", Ids(qr.chunks))>>
                \o TokenEvents(qr.deltas) \o <<Event(last, "", <<>>)>>

CallAt(x, name, ok) == qr.calls[x] = [name |-> name, ok |-> ok]

SearchedEmpty ==
    /\ \E x \in 1..Len(qr.calls) : CallAt(x, "search", TRUE)
    /\ qr.chunks = <<>>

\* C17: the search is issued only after the query embedding returned; the
\* completion is requested only after a search returned chunks and they were
\* packed; a request whose search returned no chunk ends with a 200 response
\* with an empty chunk list, and no completion is requested for it.
C17_StagesInOrder ==
    /\ \A x \in 1..Len(qr.calls) :
          /\ qr.calls[x].name = "search" => \E y \in 1..(x - 1) : CallAt(y, "embed", TRUE)
          /\ qr.calls[x].name = "complete" =>
                /\ \E y \in 1..(x - 1) : CallAt(y, "search", TRUE)
                /\ qr.chunks # <<>>
                /\ qr.context = PackContext(qr.chunks)
    /\ SearchedEmpty =>
          /\ \A x \in 1..Len(qr.calls) : qr.calls[x].name # "complete"
          /\ qr.pc = "done" =>
                (qr.resp.status = 200 /\ qr.resp.chunks = <<>> /\ qr.resp.events = <<>>)

\* A search over a store that holds rows returned none for the document asked
\* for, and the request has ended with the 200 response.
C17_Witness ==
    /\ qr.pc = "done"
    /\ SearchedEmpty
    /\ Len(embeddings) > 0
    /\ qr.top_k > 0
    /\ qr.resp.status = 200

\* C18: a request (POST, not rate limited, well-formed body and prompt) with
\* top_k = 0 or top_k > 20 is rejected with status 400, and no call is issued
\* for it: no connection, no query embedding, no search, no log, no completion.
C18_TopKOutOfRangeRejected ==
    (/\ qr.pc # "idle"
     /\ qr.req.method = "POST" /\ qr.allowed
     /\ qr.req.body = "json" /\ qr.req.prompt = "ok"
     /\ qr.req.top_k = 0 \/ qr.req.top_k > 20)
        => /\ qr.calls = <<>>
           /\ qr.logs = <<>>
           /\ qr.pc = "done" => qr.resp.status = 400

(***************************************************************************)
(* Claims about the retrieval log (QuerySpec).                             *)
(***************************************************************************)

NotLogCall(c) == c.name # "log"

\* The handler's state without the traces of the log write: the record
\* written and the outcome of the call.
WithoutLog(q) == [q EXCEPT !.logs = <<>>, !.calls = SelectSeq(@, NotLogCall)]

LogFailed == \E x \in 1..Len(qr.calls) : CallAt(x, "log", FALSE)

\* C21: the step that awaits logRetrieval leaves the handler in the same
\* state, up to the log record itself, whether the insert succeeds or fails;
\* and a request ends with the 500 response only if a call other than the
\* log write failed.
C21_LogFailureHarmless ==
    /\ [](qr.pc = "done" /\ qr.calls # <<>> /\ qr.resp.status = 500
            => \E x \in 1..Len(qr.calls) : NotLogCall(qr.calls[x]) /\ ~qr.calls[x].ok)
    /\ [][qr.pc = "log" =>
            \A ok \in BOOLEAN :
                WithoutLog(qr') = WithoutLog(AfterLog(Called(qr, "log", ok), ok))]_vars

\* The log insert failed and the request ended with the answer of the model.
C21_Witness ==
    /\ qr.pc = "done"
    /\ LogFailed
    /\ qr.resp.status = 200
    /\ qr.resp.answer = "t1"
    /\ qr.resp.chunks # <<>>

\* The request passed the method, rate-limit and validation checks of the
\* validated handler.
Accepted == qr.pc # "idle" /\ qr.variant = "validated" /\ ~(qr.pc = "done" /\ qr.calls = <<>>)

\* C22: a request accepted by the validated handler, whose database
\* connection was made and whose log insert did not fail, has ended with one
\* retrieval-log record, carrying the ids of the retrieved chunks in rank
\* order.
C22_OneLogRecord ==
    (/\ Accepted /\ qr.pc = "done"
     /\ \E x \in 1..Len(qr.calls) : CallAt(x, "connect", TRUE)
     /\ ~LogFailed)
        => /\ Len(qr.logs) = 1
           /\ qr.logs[1].chunk_ids = Ids(qr.chunks)

(***************************************************************************)
(* Claims about the failures of the ingest handler (Spec).                 *)
(***************************************************************************)

\* The resolution statement of the invocation reached the database when no
\* document had the reference given.
ResolvedToNone(v) == v.refs = "none"

\* C23: a request whose reference resolved to no document fails with the
\* not-found failure: it never sets PROCESSING and never reaches the blob
\* read, it ends with the 500 response, and none of its steps changes a
\* document row or a chunk row.
C23_NotFoundLeavesStore ==
    /\ [](\A i \in Slots :
            ResolvedToNone(inv[i]) =>
               /\ inv[i].err = "not_found"
               /\ inv[i].pc \in {"finally", "catch", "mark_error", "catch_end", "done"}
               /\ ~inv[i].setProc
               /\ inv[i].pc = "done" => inv[i].status = 500)
    /\ [][\A i \in Slots :
            (ResolvedToNone(inv[i]) /\ inv'[i] # inv[i])
                => (documents' = documents /\ embeddings' = embeddings)]_vars

\* The failures of the collaborators of the handler: a connection, a
\* statement answered with an error, the blob read, the extraction.
CollaboratorErrors ==
    {"connect_failed", "query_failed", "blob_not_found", "blob_failed", "extract_failed"}

\* The invocation was asked to ingest document d, whose cleaned text is
\* empty, and has returned; no collaborator failed, the secondary connection
\* and the ERROR update did not fail, and no other invocation is at work.
IngestedEmpty(i, d) ==
    /\ inv[i].pc = "done"
    /\ HasIdentifier(inv[i].req) /\ inv[i].req.key = d
    /\ documents[d].present /\ documents[d].file = "empty"
    /\ inv[i].err \notin CollaboratorErrors \cup {"not_found"}
    /\ inv[i].conn2 /\ ~inv[i].markFailed
    /\ \A j \in Slots : j # i => inv[j].pc = "idle"

\* C24: an invocation that ingested a document whose cleaned text is empty
\* has failed with the empty-content failure and the 500 response, no chunk
\* of the document is stored and the document is in status ERROR.
C24_EmptyContentMarksError ==
    \A i \in Slots, d \in DocIds :
        IngestedEmpty(i, d)
            => /\ inv[i].status = 500
               /\ inv[i].err = "no_text"
               /\ documents[d].status = "ERROR"
               /\ \A x \in 1..Len(embeddings) : embeddings[x].document_id # d

InCatch(v) == v.pc \in {"catch", "mark_error", "catch_end"}

\* C25: the steps of the catch block keep the primary error and lead to the
\* 500 response, also when the secondary connection or the ERROR update
\* fails; an invocation that returns 200 has made no secondary connection
\* and issued no ERROR update.
C25_MarkErrorIsolated ==
    /\ [](\A i \in Slots :
            /\ InCatch(inv[i]) => inv[i].err # "none"
            /\ inv[i].pc = "done" /\ inv[i].status = 200 =>
                  (~inv[i].conn2 /\ ~inv[i].errIssued /\ ~inv[i].markFailed
                   /\ inv[i].err = "none")
            /\ inv[i].pc = "done" /\ (inv[i].markFailed \/ inv[i].err # "none") =>
                  inv[i].status = 500)
    /\ [][\A i \in Slots :
            (InCatch(inv[i]) /\ inv'[i] # inv[i]) =>
               /\ inv'[i].err = inv[i].err
               /\ InCatch(inv'[i]) \/ (inv'[i].pc = "done" /\ inv'[i].status = 500)]_vars

\* The ERROR update failed after an empty text was found: the response is
\* the 500 with that primary error.
C25_Witness ==
    \E i \in Slots :
        /\ inv[i].pc = "done" /\ inv[i].status = 500
        /\ inv[i].markFailed /\ inv[i].err = "no_text"

\* C26: every invocation ends with a response, never by dying without one,
\* and the response is the 200 of a document it marked READY, with no error,
\* or the 500 with the error.
C26_TwoResponses ==
    \A i \in Slots :
        /\ inv[i].pc # "crashed"
        /\ inv[i].pc = "done" =>
              \/ inv[i].status = 200 /\ inv[i].err = "none" /\ inv[i].setProc
              \/ inv[i].status = 500 /\ inv[i].err # "none"

\* The invocation has made its PROCESSING update and has not yet come to its
\* READY update or to its catch block.
Processing(v) ==
    v.setProc /\ v.pc \in {"fetch", "extract", "chunk", "chunked"}

\* C27: no two invocations are processing the same document at the same
\* time.
C27_OneInvocationPerDocument ==
    \A i \in Slots, j \in Slots :
        (i # j /\ Processing(inv[i]) /\ Processing(inv[j])) => inv[i].doc # inv[j].doc

(***************************************************************************)
(* Claims about the chunks of chunkText (ChunkSpec).  A call with          *)
(* overlapWords > 0 does not return (C4); the chunks are the entries of    *)
(* the array the call builds.                                              *)
(***************************************************************************)
OverlapWords(c) == TokensToWords(c.overlapTokens)

\* The words of a text: its non-empty words, in order.
TextWords(t) == [x \in 1..t.k |-> x]

LastWords(chunk, m) == SubSeq(chunk, Len(chunk) - m + 1, Len(chunk))

\* C28: of two consecutive chunks, the later begins overlapWords words before
\* the end of the earlier: the last overlapWords words of the one are the
\* first overlapWords words of the other, unless the later chunk, a tail, is
\* shorter than that.
C28_ChunksOverlap ==
    \A x \in 1..(Len(ck.chunks) - 1) :
        LET a  == ck.chunks[x]
            b  == ck.chunks[x + 1]
            ov == OverlapWords(ck)
        IN  (Len(b) >= ov /\ Len(a) >= ov) =>
               /\ LastWords(a, ov) = SubSeq(b, 1, ov)
               /\ b[1] = a[Len(a)] + 1 - ov

\* A call with the default parameters on a long text has pushed a second
\* chunk, which starts with the last 92 words of the first.
C28_Witness ==
    /\ DefaultCall(ck)
    /\ OverlapWords(ck) = 92
    /\ Len(ck.chunks) >= 2
    /\ Len(ck.chunks[2]) > 92
    /\ ck.chunks[2][1] = Len(ck.chunks[1]) - 91

\* The first chunk whole, and of each later chunk the words after its
\* overlap with the chunk before.
RECURSIVE Reconstruct(_, _)
Reconstruct(chunks, ov) ==
    IF Len(chunks) <= 1 THEN (IF chunks = <<>> THEN <<>> ELSE chunks[1])
    ELSE LET last == chunks[Len(chunks)]
         IN  Reconstruct(SubSeq(chunks, 1, Len(chunks) - 1), ov)
             \o SubSeq(last, Min(ov, Len(last)) + 1, Len(last))

\* The window of the last pass ended at the end of the word array.
WindowAtEnd(c) ==
    /\ c.pc = "test" /\ c.chunks # <<>>
    /\ c.start + OverlapWords(c) = Len(SplitWords(c.text))

\* C29: the chunks without their overlaps, concatenated, are the words of the
\* text in order, none missing and none repeated: a prefix of them while the
\* windows are on their way, all of them when the call has returned or the
\* window has reached the end of the text.
C29_ChunksCoverText ==
    LET rec   == Reconstruct(ck.chunks, OverlapWords(ck))
        words == TextWords(ck.text)
    IN  /\ Len(rec) <= Len(words)
        /\ rec = SubSeq(words, 1, Len(rec))
        /\ (ck.pc = "returned" \/ WindowAtEnd(ck)) => rec = words

\* Three overlapping chunks cover a text of five words that starts with
\* whitespace.
C29_Witness ==
    /\ OverlapWords(ck) > 0
    /\ ck.text.k = 5 /\ ck.text.lead
    /\ Len(ck.chunks) = 3
    /\ Reconstruct(ck.chunks, OverlapWords(ck)) = TextWords(ck.text)

\* A text as chunkText outputs one: trimmed, not empty, of at most maxWords
\* words.
SingleChunk(c) ==
    /\ c.text.k >= 1 /\ ~c.text.lead /\ ~c.text.trail
    /\ c.text.k <= TokensToWords(c.maxTokens)

\* C30: chunkText of a text of at most maxWords words builds one chunk only,
\* and returns it: the text itself.
C30_RechunkIsIdentity ==
    SingleChunk(ck) =>
        /\ Len(ck.chunks) <= 1
        /\ ck.pc \notin ArrayEnds
        /\ ck.pc = "returned" => ck.chunks = <<TextWords(ck.text)>>

(***************************************************************************)
(* Claim about the packed context (QuerySpec).                             *)
(***************************************************************************)

\* C31: the context packed for the ranked chunks c1..cn is the preamble, then
\* "[1]" followed by the content of c1, "[2]" followed by the content of c2
\* and so on in rank order, then the closing instruction, whatever the ids of
\* the chunks.
C31_CitationsByRank ==
    qr.context # <<>> =>
        LET n == Len(qr.chunks)
        IN  /\ Len(qr.context) = 2 * n + 2
            /\ qr.context[1].kind = "preamble"
            /\ qr.context[2 * n + 2].kind = "instruction"
            /\ \A x \in 1..n :
                  /\ qr.context[2 * x] = Piece("citation", x, "")
                  /\ qr.context[2 * x + 1] = Piece("content", 0, qr.chunks[x].content)

\* Two chunks were packed whose ids are against the rank order and whose
\* contents differ: the first in rank is cited as [1].
C31_Witness ==
    /\ Len(qr.chunks) = 2
    /\ qr.chunks[1].id > qr.chunks[2].id
    /\ qr.chunks[1].content # qr.chunks[2].content
    /\ qr.context # <<>>
    /\ qr.context[2].n = 1
    /\ qr.context[3].text = qr.chunks[1].content

(***************************************************************************)
(* Claim about extractText (ExtractSpec).                                  *)
(***************************************************************************)

\* C32: the media type decides the extractor and the extension is used only
\* when the media type names none: a call with a plain-text media type has
\* returned the UTF-8 decoding of the buffer whatever the extension, a call
\* with a PDF media type goes to the PDF extractor, and a call that matches
\* no media type and no extension returns the UTF-8 decoding.
C32_MediaTypeFirst ==
    xt.pc # "idle" =>
        /\ MimeIncludes(xt.mimetype, "text") =>
              (xt.pc = "returned" /\ xt.result = Utf8(xt.buffer).text)
        /\ MimeIncludes(xt.mimetype, "pdf") => xt.route = "pdf"
        /\ (/\ ~MimeIncludes(xt.mimetype, "pdf") /\ ~MimeIncludes(xt.mimetype, "word")
            /\ ~MimeIncludes(xt.mimetype, "text")
            /\ ExtOf(xt.filename) \notin {"pdf", "docx", "txt"})
              => (xt.pc = "returned" /\ xt.result = Utf8(xt.buffer).text)

(***************************************************************************)
(* Claims about checkRateLimit (RateSpec).                                 *)
(***************************************************************************)

\* The calls of a history answered allowed from time from to before time to.
RECURSIVE AllowedIn(_, _, _)
AllowedIn(h, from, to) ==
    IF h = <<>> THEN 0
    ELSE (IF from <= Head(h)[1] /\ Head(h)[1] < to THEN Head(h)[2] ELSE 0)
         + AllowedIn(Tail(h), from, to)

\* C33: for every client key, no span of 60 seconds holds more than 60 calls
\* answered allowed.
C33_AtMostSixtyPerMinute ==
    \A k \in Clients :
        \A x \in 1..Len(rl.hist[k]) :
            AllowedIn(rl.hist[k], rl.hist[k][x][1], rl.hist[k][x][1] + RATE_LIMIT_WINDOW)
                <= RATE_LIMIT_MAX_REQUESTS

\* The entry is in the map and its window has not passed.
Live(entry, now) == entry.present /\ entry.resetTime >= now

\* C37: a call that is rejected leaves the entry of its key as it was; a call
\* leaves the live entries of the other keys as they were; a call is allowed
\* exactly when its key has no live entry or fewer than 60 calls counted in
\* it, and the count of a live entry is the number of calls allowed in its
\* window, at most 60.
C37_RejectedCallsChangeNothing ==
    /\ [](\A k \in Clients :
            Live(rl.map[k], rl.now) =>
               /\ rl.map[k].count <= RATE_LIMIT_MAX_REQUESTS
               /\ rl.map[k].count =
                     AllowedIn(rl.hist[k], rl.map[k].resetTime - RATE_LIMIT_WINDOW,
                               rl.map[k].resetTime + 1))
    /\ [][(rl'.now = rl.now /\ rl' # rl) =>
            LET k == rl'.last.key
            IN  /\ ~rl'.last.allowed => rl'.map[k] = rl.map[k]
                /\ \A j \in Clients \ {k} :
                      Live(rl.map[j], rl.now) => rl'.map[j] = rl.map[j]
                /\ rl'.last.allowed <=>
                      (~Live(rl.map[k], rl.now)
                       \/ rl.map[k].count < RATE_LIMIT_MAX_REQUESTS)]_vars

\* Client a was rejected after 60 allowed calls of its window, while client b
\* has a live entry.
C37_Witness ==
    /\ rl.last = [key |-> "a", allowed |-> FALSE]
    /\ rl.map["a"].count = RATE_LIMIT_MAX_REQUESTS
    /\ Live(rl.map["b"], rl.now)
    /\ rl.now > 0

(***************************************************************************)
(* Claim about the connections of the ingest handler (HandlerSpec).        *)
(***************************************************************************)

\* C36: when the handler returns, every connection it opened, the primary
\* one and the one of the failure path, has been closed, on every path,
\* those where a query on the connection failed included.
C36_ConnectionsClosed ==
    \A i \in Slots : inv[i].pc = "done" => inv[i].open = {}

====
